---------------------------- MODULE Spec2Model ----------------------------
(***************************************************************************)
(* AI Pulse: the fetch / merge / dedupe / rank / cache pipeline and the    *)
(* controller that drives it, in its three cache-backed variants:          *)
(*   "v2"  src/app.js lines 197-528      (one HN query, cache aipulse_cache_v2) *)
(*   "v3"  src/unnamed/part_000          (several HN queries, isLoading)   *)
(*   "v4"  src/unnamed/part_001          (dev.to + HN, funding filter)     *)
(* and the static-feed script that reads articles.json:                    *)
(*   "v5"  src/app.js lines 1-195        (CACHE_KEY aipulse_v5, no cache use)  *)
(* The variant is fixed in the initial state; the programs never share     *)
(* state (their CACHE_KEYs differ).                                        *)
(***************************************************************************)
EXTENDS Integers, Sequences, FiniteSets, TLC

VARIABLES
  variant,        \* which of the programs runs
  phase,          \* "init" before the boot call at the end of the script, then "run"
  now,            \* Date.now()
  ticks,          \* setInterval callbacks delivered so far
  started,        \* history: load calls that got past the isLoading guard
  allArticles,    \* let allArticles
  filtered,       \* let filtered (static-feed script only; stays empty elsewhere)
  displayedCount, \* let displayedCount
  currentFilter,  \* let currentFilter
  isLoading,      \* let isLoading (part_000 only; stays FALSE elsewhere)
  activeBtn,      \* the filter button carrying class "active"
  grid,           \* #articleGrid: [kind, cards]
  loadMoreWrap,   \* TRUE iff #loadMoreWrap is displayed
  errorBanner,    \* "hidden", or which message the visible banner shows
  blob,           \* localStorage[CACHE_KEY]
  inflight,       \* the loads suspended at an await, in start order
  listOwner,      \* history: the filter argument of the load that last assigned allArticles
  written,        \* history: per filter, the last {ts, articles} a saveCache call got stored
  last            \* history: what the last step did

vars == << variant, phase, now, ticks, started, allArticles, filtered,
           displayedCount, currentFilter, isLoading, activeBtn, grid,
           loadMoreWrap, errorBanner, blob, inflight, listOwner, written, last >>

-----------------------------------------------------------------------------
(* Program constants *)

CACHE_TTL == 60 * 60 * 1000

PAGE_SIZE == 18

MAX_RESULTS == 60

MaxMerged == 80

SparseV2 == 5

SparseV3 == 6

(* Bounds of the model *)

MaxInFlight == 2

MaxLoads == 2

MaxHours == 1

RichHits == 20

\* the largest response of a query in the aggregation taken alone
MaxBatch == 45

Variants == {"v2", "v3", "v4"}

Min(a, b) == IF a < b THEN a ELSE b

-----------------------------------------------------------------------------
(* Filters and their upstream queries *)

Filters(v) == IF v = "v4" THEN {"all", "funding"} ELSE {"all", "robotics"}

\* part_000 FILTER_QUERIES: how many queries a filter fans out to
FILTER_QUERIES(f) == IF f = "all" THEN 4 ELSE 3

\* part_001 FILTERS[f].devto
FILTERS_devto(f) ==
  IF f = "funding"
    THEN << "startup", "artificial-intelligence", "machinelearning" >>
    ELSE << "artificial-intelligence", "machinelearning", "llm" >>

FUNDING_KEYWORDS ==
  <<
    <<"r","a","i","s","e","s">>,
    <<"f","u","n","d","i","n","g">>,
    <<"r","a","i","s","e","d">>,
    <<"s","e","r","i","e","s"," ","a">>,
    <<"s","e","r","i","e","s"," ","b">>,
    <<"s","e","r","i","e","s"," ","c">>,
    <<"s","e","r","i","e","s"," ","d">>,
    <<"s","e","e","d"," ","r","o","u","n","d">>,
    <<"i","n","v","e","s","t","m","e","n","t">>,
    <<"i","n","v","e","s","t","o","r">>,
    <<"v","e","n","t","u","r","e">>,
    <<"v","a","l","u","a","t","i","o","n">>,
    <<"v","a","l","u","e","d"," ","a","t">>,
    <<"m","i","l","l","i","o","n">>,
    <<"b","i","l","l","i","o","n">>,
    <<"b","a","c","k","e","d">>,
    <<"r","o","u","n","d"," ","l","e","d">>,
    <<"s","e","c","u","r","e","s">>,
    <<"s","e","c","u","r","e","d">>,
    <<"a","c","q","u","i">>,
    <<"i","p","o">>,
    <<"u","n","i","c","o","r","n">>,
    <<"p","r","e","-","s","e","e","d">>,
    <<"g","r","o","w","t","h"," ","r","o","u","n","d">>,
    <<"l","e","d"," ","b","y">>,
    <<"c","a","p","i","t","a","l">>
  >>

-----------------------------------------------------------------------------
(* Text.  A title is a pair << base, n >>: the text `base` followed, when  *)
(* n > 0, by " " and the decimal digits of n.  << "", 0 >> is the missing  *)
(* title of an upstream record.                                            *)

UPPER == <<"A","B","C","D","E","F","G","H","I","J","K","L","M","N","O","P","Q","R","S","T","U","V","W","X","Y","Z">>

LOWER == <<"a","b","c","d","e","f","g","h","i","j","k","l","m","n","o","p","q","r","s","t","u","v","w","x","y","z">>

DIGITS == <<"0","1","2","3","4","5","6","7","8","9">>

BaseChars ==
  "" :> << >> @@
  "OpenAI raises $500M" :> <<"O","p","e","n","A","I"," ","r","a","i","s","e","s"," ","$","5","0","0","M">> @@
  "OpenAI Raises $500M" :> <<"O","p","e","n","A","I"," ","R","a","i","s","e","s"," ","$","5","0","0","M">> @@
  "New LLM benchmark paper" :> <<"N","e","w"," ","L","L","M"," ","b","e","n","c","h","m","a","r","k"," ","p","a","p","e","r">> @@
  "Robot learns to walk" :> <<"R","o","b","o","t"," ","l","e","a","r","n","s"," ","t","o"," ","w","a","l","k">> @@
  "Show HN: Tiny GPT" :> <<"S","h","o","w"," ","H","N",":"," ","T","i","n","y"," ","G","P","T">> @@
  "Startup secures seed round" :> <<"S","t","a","r","t","u","p"," ","s","e","c","u","r","e","s"," ","s","e","e","d"," ","r","o","u","n","d">> @@
  "Researchers train a very large language model to summarise every paper ever written" :> <<"R","e","s","e","a","r","c","h","e","r","s"," ","t","r","a","i","n"," ","a"," ","v","e","r","y"," ","l","a","r","g","e"," ","l","a","n","g","u","a","g","e"," ","m","o","d","e","l"," ","t","o"," ","s","u","m","m","a","r","i","s","e"," ","e","v","e","r","y"," ","p","a","p","e","r"," ","e","v","e","r"," ","w","r","i","t","t","e","n">>

NoTitle == << "", 0 >>

RECURSIVE DigitsOf(_)
DigitsOf(n) ==
  IF n < 10 THEN << DIGITS[n + 1] >>
  ELSE Append(DigitsOf(n \div 10), DIGITS[(n % 10) + 1])

TitleChars(t) ==
  IF t[2] = 0 THEN BaseChars[t[1]]
  ELSE BaseChars[t[1]] \o << " " >> \o DigitsOf(t[2])

\* String.prototype.toLowerCase, one character
LowerChar(c) ==
  IF \E i \in 1..Len(UPPER) : UPPER[i] = c
    THEN LOWER[CHOOSE i \in 1..Len(UPPER) : UPPER[i] = c]
    ELSE c

toLowerCase(s) == [i \in 1..Len(s) |-> LowerChar(s[i])]

IsAlnumSpace(c) ==
  \/ c = " "
  \/ \E i \in 1..Len(LOWER) : LOWER[i] = c
  \/ \E i \in 1..Len(DIGITS) : DIGITS[i] = c

\* String.prototype.trim on a text whose only white space is " "
trim(s) ==
  LET idx == {i \in 1..Len(s) : s[i] # " "}
  IN  IF idx = {} THEN << >>
      ELSE SubSeq(s, CHOOSE i \in idx : \A j \in idx : i <= j,
                     CHOOSE i \in idx : \A j \in idx : i >= j)

\* String.prototype.includes
includes(s, w) ==
  \E i \in 1..(Len(s) - Len(w) + 1) : SubSeq(s, i, i + Len(w) - 1) = w

\* part_001 merge: const normalize = t => t.toLowerCase().replace(/[^a-z0-9 ]/g, '').trim()
normalize(s) == trim(SelectSeq(toLowerCase(s), IsAlnumSpace))

\* part_001 merge: normalize(a.title).slice(0, 60)
TitleKey(t) ==
  LET n == normalize(TitleChars(t)) IN SubSeq(n, 1, Min(60, Len(n)))

\* part_001 load: FUNDING_KEYWORDS.some(kw => (a.title || '').toLowerCase().includes(kw))
MentionsFunding(t) ==
  LET low == toLowerCase(TitleChars(t))
  IN  \E k \in 1..Len(FUNDING_KEYWORDS) : includes(low, FUNDING_KEYWORDS[k])

-----------------------------------------------------------------------------
(* What the upstream APIs answer.  "all" is a busy topic, the other        *)
(* filters are quiet ones; whether a request succeeds is chosen when it    *)
(* settles.                                                                *)

HNBases == << "OpenAI raises $500M", "New LLM benchmark paper",
              "Robot learns to walk", "Show HN: Tiny GPT",
              "Startup secures seed round" >>

DevToBases == << "OpenAI Raises $500M", "New LLM benchmark paper",
                 "Robot learns to walk", "Show HN: Tiny GPT",
                 "Startup secures seed round" >>

\* a headline longer than the 60 characters merge compares
LongHeadline == "Researchers train a very large language model to summarise every paper ever written"

\* every tenth record comes without a title, every tenth carries the long
\* headline
TitleOf(bases, n) ==
  IF n % 10 = 3 THEN NoTitle
  ELSE IF n % 10 = 7 THEN << LongHeadline, n >>
  ELSE << bases[(n % 5) + 1], n >>

PointsOf(n) == ((n * 7) % 5) * 10 + 2

FilterBase(f) ==
  CASE f = "all" -> 100 [] f = "robotics" -> 300 [] f = "funding" -> 500

TagBase(tag) ==
  CASE tag = "artificial-intelligence" -> 100
    [] tag = "machinelearning" -> 130
    [] tag = "llm" -> 160
    [] tag = "startup" -> 190

HNHit(n) ==
  [objectID |-> n, title |-> TitleOf(HNBases, n), points |-> PointsOf(n)]

DevToRecord(n) ==
  [id |-> n, title |-> TitleOf(DevToBases, n),
   positive_reactions_count |-> ((n * 3) % 4) * 10]

\* how many hits an HN query returns: the first query of the busy topic
\* fills a page, its other queries add little, a quiet topic has one hit
\* a day
HNHitCount(f, i, days) ==
  IF f = "all" THEN (IF i = 1 THEN RichHits ELSE 2)
  ELSE IF days = 1 THEN 1 ELSE 3

\* how many articles dev.to lists under a tag
DevToHitCount(tag) == IF tag = "artificial-intelligence" THEN RichHits ELSE 2

\* the hits of the i-th HN query of filter f over the last `days` days;
\* the top story (first hit) is matched by every query of the filter
HNResponse(f, i, days) ==
  [k \in 1..HNHitCount(f, i, days) |->
     HNHit(IF k = 1 THEN FilterBase(f) + 1 ELSE FilterBase(f) + 25 * i + k)]

\* the articles dev.to lists under a tag; article 101 carries every tag
DevToResponse(tag) ==
  [k \in 1..DevToHitCount(tag) |->
     DevToRecord(IF k = 1 THEN 101 ELSE TagBase(tag) + k)]

-----------------------------------------------------------------------------
(* Ranking and deduplication *)

\* the titles the upstream APIs of the model can return
AllTitles ==
  {NoTitle} \cup {TitleOf(HNBases, n) : n \in 100..700}
            \cup {TitleOf(DevToBases, n) : n \in 100..700}

\* TitleKey and MentionsFunding, computed once per title
DedupKeys == [t \in AllTitles |-> TitleKey(t)]

FundingTitles == {t \in AllTitles : MentionsFunding(t)}

DedupKey(t) == DedupKeys[t]

IsFundingTitle(t) == t \in FundingTitles

Take(s, n) == SubSeq(s, 1, Min(n, Len(s)))

\* the elements of s at the positions in keep, in their order
Pick(s, keep) ==
  LET idx == SelectSeq([i \in 1..Len(s) |-> i], LAMBDA i : i \in keep)
  IN  [k \in 1..Len(idx) |-> s[idx[k]]]

\* Array.prototype.sort((a, b) => b.points - a.points), which is stable: an
\* element goes after every element with more points and after the earlier
\* elements with as many
SortByPoints(s) ==
  LET n == Len(s)
      pos == [i \in 1..n |->
                1 + Cardinality({j \in 1..n :
                                   \/ s[j].points > s[i].points
                                   \/ s[j].points = s[i].points /\ j < i})]
      at == [k \in 1..n |-> CHOOSE i \in 1..n : pos[i] = k]
  IN  [k \in 1..n |-> s[at[k]]]

\* app.js fetchArticles: hits.filter(h => !seen.has(h.objectID) ...): a hit
\* stays when its objectID is not seen and no earlier hit carries it
UniqueByObjectID(hits, seen) ==
  Pick(hits, {i \in 1..Len(hits) :
                /\ hits[i].objectID \notin seen
                /\ \A j \in 1..(i - 1) : hits[j].objectID # hits[i].objectID})

\* the sparse test written `<=`
IsSparseV2_Inclusive(hits) == Len(hits) <= SparseV2

\* app.js fetchArticles: if (hits.length < 5)
IsSparseV2(hits) == Len(hits) < SparseV2

\* part_000 fetchAll: if (results.length < 6)
IsSparseV3(results) == Len(results) < SparseV3

\* app.js fetchArticles, after the awaits: dedupe, sort, cap
RankV2(hits) == Take(SortByPoints(UniqueByObjectID(hits, {})), MAX_RESULTS)

\* part_000 fetchAll: the inner loop over one fulfilled batch
\* (if (!seen.has(hit.objectID) && hit.title) { seen.add; results.push }):
\* a hit is pushed when it has a title and neither results nor an earlier
\* pushed hit of the batch carries its objectID
PushUnseen(results, hits) ==
  LET seen == {results[i].objectID : i \in 1..Len(results)}
  IN  results \o
      Pick(hits, {i \in 1..Len(hits) :
                    /\ hits[i].title # NoTitle
                    /\ hits[i].objectID \notin seen
                    /\ \A j \in 1..(i - 1) :
                         hits[j].title # NoTitle => hits[j].objectID # hits[i].objectID})

\* the loop over the batches giving up at the first rejected one, as a join
\* that rejects with its first failure would
RECURSIVE CollectBatches_StopsAtRejected(_, _, _)
CollectBatches_StopsAtRejected(results, batches, ok) ==
  IF batches = << >> THEN results
  ELSE IF ~Head(ok) THEN results
  ELSE CollectBatches_StopsAtRejected(PushUnseen(results, Head(batches)),
                                      Tail(batches), Tail(ok))

\* part_000 fetchAll: for (const b of batches) if (b.status === 'fulfilled') ...
\* ok[i] tells whether the i-th query was fulfilled
RECURSIVE CollectBatches(_, _, _)
CollectBatches(results, batches, ok) ==
  IF batches = << >> THEN results
  ELSE CollectBatches(
         IF Head(ok) THEN PushUnseen(results, Head(batches)) ELSE results,
         Tail(batches), Tail(ok))

\* part_000 fetchAll: results.sort(...); return results.slice(0, 80)
RankV3(results) == Take(SortByPoints(results), MaxMerged)

\* part_000 fetchAll: the batches of one fan-out
BatchesV3(f, days) == [i \in 1..FILTER_QUERIES(f) |-> HNResponse(f, i, days)]

\* part_001 fetchDevTo: the promise of one tag never rejects
\* (.then(r => r.ok ? r.json() : []).catch(() => []))
DevToBatch(tag, ok) == IF ok THEN DevToResponse(tag) ELSE << >>

\* the loop over one batch pushing every titled record, seen or not
PushDevTo_IgnoresSeen(results, seen, batch) ==
  LET kept == SelectSeq(batch, LAMBDA a : a.title # NoTitle)
  IN  [results |-> results \o
                   [k \in 1..Len(kept) |->
                      [id |-> << "devto", kept[k].id >>, title |-> kept[k].title,
                       points |-> kept[k].positive_reactions_count]],
       seen |-> seen \cup {kept[k].id : k \in 1..Len(kept)}]

\* part_001 fetchDevTo: the loop over one batch
\* (if (!seen.has(a.id) && a.title) { seen.add(a.id); results.push({...}) })
PushDevTo(results, seen, batch) ==
  LET keep == {i \in 1..Len(batch) :
                 /\ batch[i].title # NoTitle
                 /\ batch[i].id \notin seen
                 /\ \A j \in 1..(i - 1) :
                      batch[j].title # NoTitle => batch[j].id # batch[i].id}
      kept == Pick(batch, keep)
  IN  [results |-> results \o
                   [k \in 1..Len(kept) |->
                      [id |-> << "devto", kept[k].id >>, title |-> kept[k].title,
                       points |-> kept[k].positive_reactions_count]],
       seen |-> seen \cup {batch[i].id : i \in keep}]

RECURSIVE CollectDevTo(_, _, _)
CollectDevTo(results, seen, batches) ==
  IF batches = << >> THEN results
  ELSE LET r == PushDevTo(results, seen, Head(batches))
       IN  CollectDevTo(r.results, r.seen, Tail(batches))

\* part_001 fetchDevTo(tags); ok[i] tells whether the i-th tag's request succeeded
fetchDevTo(tags, ok) ==
  CollectDevTo(<< >>, {}, [i \in 1..Len(tags) |-> DevToBatch(tags[i], ok[i])])

\* part_001 fetchHN: (data.hits || []).filter(h => h.title).map(h => ({...}))
MapHN(response) ==
  LET hits == SelectSeq(response, LAMBDA h : h.title # NoTitle)
  IN  [i \in 1..Len(hits) |->
         [id |-> << "hn", hits[i].objectID >>, title |-> hits[i].title,
          points |-> hits[i].points]]

\* part_001 fetchHN(query): fails soft to []
fetchHNv4(f, ok) == IF ~ok THEN << >> ELSE MapHN(HNResponse(f, 1, 1))

\* merge telling articles apart by their id instead of their title key
MergeUnseen_ById(all, seen, rest) ==
  all \o
  Pick(rest, {i \in 1..Len(rest) :
                /\ rest[i].id \notin {all[j].id : j \in 1..Len(all)}
                /\ \A j \in 1..(i - 1) : rest[j].id # rest[i].id})

\* part_001 merge: the loop over [...devto, ...hn]
\* (if (!seen.has(key)) { seen.add(key); all.push(a) }); seen holds the keys
\* added before the loop: an article is pushed when its key is not seen and
\* no earlier article of the walk has it
MergeUnseen(all, seen, rest) ==
  LET keys == [i \in 1..Len(rest) |-> DedupKey(rest[i].title)]
      before == seen \cup {DedupKey(all[j].title) : j \in 1..Len(all)}
  IN  all \o
      Pick(rest, {i \in 1..Len(rest) :
                    /\ keys[i] \notin before
                    /\ \A j \in 1..(i - 1) : keys[j] # keys[i]})

\* merge walking the HN articles before the dev.to ones
merge_HNFirst(devto, hn) ==
  Take(SortByPoints(MergeUnseen(<< >>, {}, hn \o devto)), MaxMerged)

\* part_001 merge(devto, hn)
merge(devto, hn) == Take(SortByPoints(MergeUnseen(<< >>, {}, devto \o hn)), MaxMerged)

\* part_001 load: the funding post-filter
ApplyFilterV4(f, articles) ==
  IF f = "funding"
    THEN SelectSeq(articles, LAMBDA a : IsFundingTitle(a.title))
    ELSE articles

-----------------------------------------------------------------------------
(* The cache store.  blob is the value under CACHE_KEY:                    *)
(*   kind "missing"  getItem returns null                                  *)
(*        "garbage"  text JSON.parse rejects                               *)
(*        "null"     the text null                                         *)
(*        "number"   a JSON number (any primitive)                         *)
(*        "array"    the text []                                           *)
(*        "object"   an object; entries maps filter names to {ts, articles} *)

\* what loadCache evaluates to: null, or the entry's article list
Null == [tag |-> "null", articles |-> << >>]

Found(articles) == [tag |-> "found", articles |-> articles]

\* an exception leaving a try block
Throw == [tag |-> "throw", articles |-> << >>]

NoEntries == << >>

Blob(kind, entries) == [kind |-> kind, entries |-> entries]

\* JSON.parse threw, or the statement after it did
StoreThrow == Blob("throw", NoEntries)

HasEntry(b, f) == b.kind = "object" /\ f \in DOMAIN b.entries

\* JSON.parse(localStorage.getItem(CACHE_KEY) || '{}')
ParseStore(b) ==
  CASE b.kind = "missing" -> Blob("object", NoEntries)
    [] b.kind = "garbage" -> StoreThrow
    [] OTHER -> b

\* loadCache's try block with the age test written `>=`: an entry exactly
\* CACHE_TTL old is already expired
LoadCacheTry_ExpiresAtTtl(b, f, t) ==
  LET cache == ParseStore(b)
  IN  IF cache = StoreThrow THEN Throw
      ELSE IF cache.kind = "null" THEN Throw
      ELSE IF ~HasEntry(cache, f) THEN Null
      ELSE IF t - cache.entries[f].ts >= CACHE_TTL THEN Null
      ELSE Found(cache.entries[f].articles)

\* the body of loadCache's try block
LoadCacheTry(b, f, t) ==
  LET cache == ParseStore(b)
  IN  IF cache = StoreThrow THEN Throw
      ELSE IF cache.kind = "null" THEN Throw     \* null[filter]: TypeError
      ELSE IF ~HasEntry(cache, f) THEN Null      \* !entry
      ELSE IF t - cache.entries[f].ts > CACHE_TTL THEN Null
      ELSE Found(cache.entries[f].articles)

\* loadCache without its catch: the exception escapes to the caller
LoadCache_NoCatch(b, f, t) == LoadCacheTry(b, f, t)

\* loadCache(filter): try { ... } catch { return null; }
LoadCache(b, f, t) ==
  LET r == LoadCacheTry(b, f, t) IN IF r = Throw THEN Null ELSE r

\* saveCache's try block keeping an entry the store already holds
\* (`cache[filter] = cache[filter] || entry`)
SaveCacheTry_KeepsOldEntry(b, f, articles, t, quota) ==
  LET cache == ParseStore(b)
  IN  IF cache = StoreThrow THEN StoreThrow
      ELSE IF cache.kind \in {"null", "number"} THEN StoreThrow
      ELSE IF ~quota THEN StoreThrow
      ELSE IF cache.kind = "array" THEN b
      ELSE Blob("object",
                [g \in DOMAIN cache.entries \cup {f} |->
                   IF g \in DOMAIN cache.entries THEN cache.entries[g]
                   ELSE [ts |-> t, articles |-> articles]])

\* saveCache's try block starting from an empty object instead of the
\* parsed store (`const cache = {}`): the other filters' entries are lost
SaveCacheTry_DropsOthers(b, f, articles, t, quota) ==
  LET cache == ParseStore(b)
  IN  IF cache = StoreThrow THEN StoreThrow
      ELSE IF cache.kind \in {"null", "number"} THEN StoreThrow
      ELSE IF ~quota THEN StoreThrow
      ELSE IF cache.kind = "array" THEN b
      ELSE Blob("object", [g \in {f} |-> [ts |-> t, articles |-> articles]])

\* the body of saveCache's try block; quota tells whether setItem has room
SaveCacheTry(b, f, articles, t, quota) ==
  LET cache == ParseStore(b)
  IN  IF cache = StoreThrow THEN StoreThrow
      ELSE IF cache.kind \in {"null", "number"} THEN StoreThrow  \* property write on a primitive
      ELSE IF ~quota THEN StoreThrow                             \* setItem: QuotaExceededError
      ELSE IF cache.kind = "array" THEN b       \* stringify drops the named property
      ELSE Blob("object",
                [g \in DOMAIN cache.entries \cup {f} |->
                   IF g = f THEN [ts |-> t, articles |-> articles]
                   ELSE cache.entries[g]])

\* saveCache without its catch: a failed write escapes to the caller
SaveCache_NoCatch(b, f, articles, t, quota) == SaveCacheTry(b, f, articles, t, quota)

\* saveCache(filter, articles): try { ... } catch { /* ignore */ }
\* the blob afterwards (StoreThrow would be an exception that escaped)
SaveCache(b, f, articles, t, quota) ==
  LET r == SaveCacheTry(b, f, articles, t, quota) IN IF r = StoreThrow THEN b ELSE r

-----------------------------------------------------------------------------
(* Which requests of a fan-out succeed, and what the fan-out then yields   *)

AnyOk(ok) == \E k \in DOMAIN ok : ok[k]

\* which of n parallel requests succeed: all, none, all but the first
OkPatterns(n) ==
  {[k \in 1..n |-> TRUE], [k \in 1..n |-> FALSE], [k \in 1..n |-> k # 1]}

\* part_000 fetchAll: results after the 1-day fan-out
FirstResultsV3(f, ok) == CollectBatches(<< >>, BatchesV3(f, 1), ok)

\* part_000 fetchAll: what it returns when the 3-day fan-out ran
WidenedListV3(f, results, ok) ==
  RankV3(CollectBatches(results, BatchesV3(f, 3), ok))

\* part_001 load: allArticles after merge and the funding post-filter;
\* ok covers the dev.to tags in order, then the HN query
MainListV4(f, ok) ==
  LET tags == FILTERS_devto(f)
  IN  ApplyFilterV4(f, merge(fetchDevTo(tags, SubSeq(ok, 1, Len(tags))),
                             fetchHNv4(f, ok[Len(tags) + 1])))

\* app.js fetchArticles: what it returns from the hits of one window
ListV2(f, days) == RankV2(HNResponse(f, 1, days))

\* the lists above, computed once per filter and pattern
ListV2Table ==
  [f \in {"all", "robotics"} |-> [days \in {1, 3} |-> ListV2(f, days)]]

FirstResultsV3Table ==
  [f \in {"all", "robotics"} |->
     [ok \in OkPatterns(FILTER_QUERIES(f)) |-> FirstResultsV3(f, ok)]]

FirstListV3Table ==
  [f \in {"all", "robotics"} |->
     [ok \in OkPatterns(FILTER_QUERIES(f)) |-> RankV3(FirstResultsV3Table[f][ok])]]

WidenedListV3Table ==
  [f \in {"all", "robotics"} |->
     [results \in {FirstResultsV3Table[f][ok] : ok \in OkPatterns(FILTER_QUERIES(f))} |->
        [ok \in OkPatterns(FILTER_QUERIES(f)) |-> WidenedListV3(f, results, ok)]]]

MainListV4Table ==
  [f \in {"all", "funding"} |->
     [ok \in OkPatterns(Len(FILTERS_devto(f)) + 1) |-> MainListV4(f, ok)]]

-----------------------------------------------------------------------------
(* Rendering *)

Grid(kind, cards) == [kind |-> kind, cards |-> cards]

Skeletons == Grid("skeleton", << >>)

\* renderPage(): append the next slice to the grid, advance the cursor,
\* show or hide the load-more control
RenderPage(list, d, cards) ==
  LET slice == SubSeq(list, d + 1, Min(d + PAGE_SIZE, Len(list)))
  IN  [cards |-> cards \o slice,
       displayedCount |-> d + Len(slice),
       loadMoreWrap |-> d + Len(slice) < Len(list)]

\* the part of the program state a load rewrites when it ends
Cur ==
  [allArticles |-> allArticles, listOwner |-> listOwner, grid |-> grid,
   displayedCount |-> displayedCount, loadMoreWrap |-> loadMoreWrap,
   errorBanner |-> errorBanner, blob |-> blob, outcome |-> "none"]

\* finishRender(fromCache) / finish(fromCache)
Finish(c, outcome) ==
  IF Len(c.allArticles) = 0
    THEN [c EXCEPT !.grid = Grid("empty", << >>), !.outcome = "empty"]
    ELSE LET r == RenderPage(c.allArticles, c.displayedCount, << >>)
         IN  [c EXCEPT !.grid = Grid("cards", r.cards),
                       !.displayedCount = r.displayedCount,
                       !.loadMoreWrap = r.loadMoreWrap,
                       !.outcome = outcome]

\* the cache test of app.js in every variant (`if (cached)`): an empty
\* cached list counts as a hit
Usable_AcceptsEmpty(v, cached) == cached # Null

\* `if (cached)` in app.js, `if (cached && cached.length > 0)` in the others
Usable(v, cached) ==
  IF v = "v2" THEN cached # Null
  ELSE cached # Null /\ Len(cached.articles) > 0

\* the catch branch of load / loadArticles
CatchBranch(v, c, f, t) ==
  LET fb == LoadCache(c.blob, f, t)
  IN  IF Usable(v, fb)
        THEN Finish([c EXCEPT !.allArticles = fb.articles, !.listOwner = f,
                              !.errorBanner = "cached"], "cached")
        ELSE [c EXCEPT !.grid = Grid("failed", << >>),
                       !.errorBanner = IF v = "v2" THEN "failed" ELSE @,
                       !.outcome = "failed"]

\* the rest of the try block once the list is known:
\* allArticles = list; saveCache(filter, allArticles) (when `save`); finish(false)
TryTail(v, c, f, list, save, t, quota) ==
  LET c1 == [c EXCEPT !.allArticles = list, !.listOwner = f]
      sv == IF save THEN SaveCache(c.blob, f, list, t, quota) ELSE c.blob
  IN  IF sv = StoreThrow THEN CatchBranch(v, c1, f, t)
      ELSE Finish([c1 EXCEPT !.blob = sv], "fresh")

-----------------------------------------------------------------------------
(* Time *)

BootTime == CACHE_TTL + 1

\* the instants the clock is read at: page load, each full hour after it,
\* and one millisecond after the last of them
TimePoints ==
  {BootTime + k * CACHE_TTL : k \in 0..MaxHours}
  \cup {BootTime + MaxHours * CACHE_TTL + 1}

-----------------------------------------------------------------------------
(* The controller *)

\* what the last step was: the operation, the filter of the load it
\* belongs to, whether the load was forced, the requests the step issued,
\* how the load ended, whether all its requests had failed, whether it
\* called saveCache, and whether localStorage then had room
Last(op, f, force, requests, outcome, allFailed, saved, quota) ==
  [op |-> op, filter |-> f, force |-> force, requests |-> requests,
   outcome |-> outcome, allFailed |-> allFailed, saved |-> saved,
   quota |-> quota]

\* the cache consulted only by forced loads (`force && loadCache(filter)`)
CachedFor_Inverted(force, b, f, t) == IF force THEN LoadCache(b, f, t) ELSE Null

\* `const cached = !force && loadCache(filter)` (falsy when forced)
CachedFor(force, b, f, t) == IF force THEN Null ELSE LoadCache(b, f, t)

\* a saveCache call gets its entry stored when the store is absent or an
\* object and setItem has room
Stored(b, quota) == quota /\ b.kind \in {"missing", "object"}

NewLoad(v, f) ==
  [filter |-> f, stage |-> IF v = "v4" THEN "main" ELSE "day1",
   results |-> << >>, anyOk |-> FALSE]

\* how many requests the first await of a load issues
FirstRequests(v, f) ==
  CASE v = "v2" -> 1
    [] v = "v3" -> FILTER_QUERIES(f)
    [] v = "v4" -> Len(FILTERS_devto(f)) + 1

Remove(s, i) == SubSeq(s, 1, i - 1) \o SubSeq(s, i + 1, Len(s))

\* commit what a load that ends writes
Commit(r) ==
  /\ allArticles' = r.allArticles
  /\ listOwner' = r.listOwner
  /\ grid' = r.grid
  /\ displayedCount' = r.displayedCount
  /\ loadMoreWrap' = r.loadMoreWrap
  /\ errorBanner' = r.errorBanner
  /\ blob' = r.blob

\* load(filter, force) up to its first await (or to its return on a cache hit)
LoadBegin(f, force) ==
  LET cached == CachedFor(force, blob, f, now)
      reset  == [Cur EXCEPT !.displayedCount = 0, !.loadMoreWrap = FALSE,
                            !.errorBanner = "hidden", !.grid = Skeletons]
  IN  /\ started < MaxLoads
      /\ started' = started + 1
      /\ currentFilter' = f
      /\ IF Usable(variant, cached)
           THEN /\ Commit(Finish([reset EXCEPT !.allArticles = cached.articles,
                                               !.listOwner = f], "cached"))
                /\ inflight' = inflight
                /\ isLoading' = FALSE
                /\ last' = Last("hit", f, force, 0, "cached", FALSE, FALSE, TRUE)
           ELSE /\ Len(inflight) < MaxInFlight
                /\ Commit(reset)
                /\ inflight' = Append(inflight, NewLoad(variant, f))
                /\ isLoading' = (variant = "v3")
                /\ last' = Last("load", f, force, FirstRequests(variant, f),
                                "none", FALSE, FALSE, TRUE)

\* a call of load going ahead whatever isLoading says
LoadCall_NoGuard(f, force) == LoadBegin(f, force)

\* a call of load(filter, force); part_000 returns at once while isLoading
LoadCall(f, force) ==
  IF variant = "v3" /\ isLoading
    THEN /\ UNCHANGED << allArticles, listOwner, grid, displayedCount,
                         loadMoreWrap, errorBanner, blob, currentFilter,
                         inflight, isLoading, started >>
         /\ last' = Last("blocked", f, force, 0, "none", FALSE, FALSE, TRUE)
    ELSE LoadBegin(f, force)

\* the last line of the script: load('all')
Boot ==
  /\ phase = "init"
  /\ phase' = "run"
  /\ LoadCall("all", FALSE)
  /\ UNCHANGED << variant, filtered, now, ticks, activeBtn, written >>

\* a click on a filter button
Click(f) ==
  /\ phase = "run"
  /\ activeBtn' = f
  /\ LoadCall(f, FALSE)
  /\ UNCHANGED << variant, filtered, phase, now, ticks, written >>

\* the setInterval callback: load(currentFilter, true), once per CACHE_TTL
\* elapsed since page load (app.js: scheduleRefresh, called by the script's
\* last line)
Tick ==
  /\ phase = "run"
  /\ ticks < (now - BootTime) \div CACHE_TTL
  /\ ticks' = ticks + 1
  /\ LoadCall(currentFilter, TRUE)
  /\ UNCHANGED << variant, filtered, phase, now, activeBtn, written >>

\* a click on "load more" (the control is only clickable while displayed)
LoadMore ==
  /\ phase = "run"
  /\ loadMoreWrap
  /\ LET r == RenderPage(allArticles, displayedCount, grid.cards)
     IN  /\ grid' = [grid EXCEPT !.cards = r.cards]
         /\ displayedCount' = r.displayedCount
         /\ loadMoreWrap' = r.loadMoreWrap
  /\ last' = Last("more", currentFilter, FALSE, 0, "none", FALSE, FALSE, TRUE)
  /\ UNCHANGED << variant, filtered, phase, now, ticks, started, allArticles, currentFilter,
                  isLoading, activeBtn, errorBanner, blob, inflight, listOwner,
                  written >>

\* the clock moves on
Advance(t) ==
  /\ phase = "run"
  /\ t > now
  /\ now' = t
  /\ last' = Last("advance", currentFilter, FALSE, 0, "none", FALSE, FALSE, TRUE)
  /\ UNCHANGED << variant, filtered, phase, ticks, started, allArticles, displayedCount,
                  currentFilter, isLoading, activeBtn, grid, loadMoreWrap,
                  errorBanner, blob, inflight, listOwner, written >>

\* a load ends: it leaves inflight and writes r
End(i, r, allFailed, saved, quota) ==
  /\ Commit(r)
  /\ inflight' = Remove(inflight, i)
  /\ isLoading' = FALSE
  /\ last' = Last("done", inflight[i].filter, FALSE, 0, r.outcome, allFailed,
                  saved, quota)
  /\ written' =
       IF saved /\ Stored(blob, quota)
         THEN [g \in DOMAIN written \cup {inflight[i].filter} |->
                 IF g = inflight[i].filter
                   THEN [ts |-> now, articles |-> r.allArticles]
                   ELSE written[g]]
         ELSE written
  /\ UNCHANGED << variant, filtered, phase, now, ticks, started, currentFilter, activeBtn >>

\* a load goes on to a further await, issuing `requests` more requests
Await(i, load, op, requests, r) ==
  /\ Commit(r)
  /\ inflight' = [inflight EXCEPT ![i] = load]
  /\ last' = Last(op, load.filter, FALSE, requests, "none", FALSE, FALSE, TRUE)
  /\ UNCHANGED << variant, filtered, phase, now, ticks, started, currentFilter,
                  activeBtn, isLoading, written >>

\* whether saveCache is reached decides whether storage room matters
Quotas(save) == IF save THEN BOOLEAN ELSE {TRUE}

\* app.js loadArticles/fetchArticles: fetchHN(query, 1) settles
V2FirstSettles(i) ==
  /\ variant = "v2"
  /\ i \in 1..Len(inflight)
  /\ inflight[i].stage = "day1"
  /\ LET f == inflight[i].filter
         hits == HNResponse(f, 1, 1)
     IN  \E ok \in BOOLEAN :
           IF ~ok
             THEN End(i, CatchBranch("v2", Cur, f, now), TRUE, FALSE, TRUE)
           ELSE IF IsSparseV2(hits)
             THEN Await(i, [inflight[i] EXCEPT !.stage = "day3", !.anyOk = TRUE],
                        "widen", 1, Cur)
           ELSE \E quota \in BOOLEAN :
                  End(i, TryTail("v2", Cur, f, ListV2Table[f][1], TRUE, now, quota),
                      FALSE, TRUE, quota)

\* app.js fetchArticles: fetchHN(query, 3) settles
V2WidenedSettles(i) ==
  /\ variant = "v2"
  /\ i \in 1..Len(inflight)
  /\ inflight[i].stage = "day3"
  /\ LET f == inflight[i].filter
     IN  \E ok \in BOOLEAN :
           IF ~ok
             THEN End(i, CatchBranch("v2", Cur, f, now), FALSE, FALSE, TRUE)
           ELSE \E quota \in BOOLEAN :
                  End(i, TryTail("v2", Cur, f, ListV2Table[f][3], TRUE, now, quota),
                      FALSE, TRUE, quota)

\* part_000 load, after `await fetchAll(filter)` returned list
V3End(i, list, anyOk) ==
  LET f == inflight[i].filter
  IN  \E quota \in Quotas(Len(list) > 0) :
        End(i, TryTail("v3", Cur, f, list, Len(list) > 0, now, quota),
            ~anyOk, Len(list) > 0, quota)

\* part_000 fetchAll: Promise.allSettled over the 1-day queries resolves
V3FirstSettles(i) ==
  /\ variant = "v3"
  /\ i \in 1..Len(inflight)
  /\ inflight[i].stage = "day1"
  /\ LET f == inflight[i].filter
     IN  \E ok \in OkPatterns(FILTER_QUERIES(f)) :
           LET results == FirstResultsV3Table[f][ok]
           IN  IF IsSparseV3(results)
                 THEN Await(i, [inflight[i] EXCEPT !.stage = "day3",
                                                   !.results = results,
                                                   !.anyOk = AnyOk(ok)],
                            "widen", FILTER_QUERIES(f), Cur)
                 ELSE V3End(i, FirstListV3Table[f][ok], AnyOk(ok))

\* part_000 fetchAll: Promise.allSettled over the 3-day queries resolves
V3WidenedSettles(i) ==
  /\ variant = "v3"
  /\ i \in 1..Len(inflight)
  /\ inflight[i].stage = "day3"
  /\ LET f == inflight[i].filter
     IN  \E ok \in OkPatterns(FILTER_QUERIES(f)) :
           V3End(i, WidenedListV3Table[f][inflight[i].results][ok],
                 inflight[i].anyOk \/ AnyOk(ok))

\* load ending with the empty filtered list instead of trying the broader
\* query
V4MainSettles_NoFallback(i) ==
  /\ variant = "v4"
  /\ i \in 1..Len(inflight)
  /\ inflight[i].stage = "main"
  /\ LET f == inflight[i].filter
     IN  \E ok \in OkPatterns(Len(FILTERS_devto(f)) + 1) :
           LET list == MainListV4Table[f][ok]
           IN  \E quota \in Quotas(Len(list) > 0) :
                 End(i, TryTail("v4", Cur, f, list, Len(list) > 0, now, quota),
                     ~AnyOk(ok), Len(list) > 0, quota)

\* part_001 load: Promise.all([fetchDevTo(cfg.devto), fetchHN(cfg.hn)]) resolves
V4MainSettles(i) ==
  /\ variant = "v4"
  /\ i \in 1..Len(inflight)
  /\ inflight[i].stage = "main"
  /\ LET f == inflight[i].filter
     IN  \E ok \in OkPatterns(Len(FILTERS_devto(f)) + 1) :
           LET list == MainListV4Table[f][ok]
           IN  IF Len(list) > 0
                 THEN \E quota \in BOOLEAN :
                        End(i, TryTail("v4", Cur, f, list, TRUE, now, quota),
                            FALSE, TRUE, quota)
                 ELSE Await(i, [inflight[i] EXCEPT !.stage = "fallback",
                                                   !.anyOk = AnyOk(ok)],
                            "fallback", 1,
                            [Cur EXCEPT !.allArticles = << >>, !.listOwner = f])

\* the fallback branch storing the broader list under the requested filter
\* (`saveCache(filter, allArticles)` before its finish(false))
V4FallbackSettles_SavesFallback(i) ==
  /\ variant = "v4"
  /\ i \in 1..Len(inflight)
  /\ inflight[i].stage = "fallback"
  /\ LET f == inflight[i].filter
     IN  \E ok \in BOOLEAN :
           LET fallback == fetchDevTo(<< "artificial-intelligence" >>, << ok >>)
               c1 == [Cur EXCEPT !.allArticles = fallback, !.listOwner = f,
                                 !.blob = SaveCache(blob, f, fallback, now, TRUE)]
           IN  End(i,
                   IF Len(fallback) > 0
                     THEN [Finish(c1, "fallback") EXCEPT !.errorBanner = "limited"]
                     ELSE [c1 EXCEPT !.grid = Grid("failed", << >>),
                                     !.outcome = "failed"],
                   ~(inflight[i].anyOk \/ ok), TRUE, TRUE)

\* part_001 load: fetchDevTo(['artificial-intelligence']) resolves
V4FallbackSettles(i) ==
  /\ variant = "v4"
  /\ i \in 1..Len(inflight)
  /\ inflight[i].stage = "fallback"
  /\ LET f == inflight[i].filter
     IN  \E ok \in BOOLEAN :
           LET fallback == fetchDevTo(<< "artificial-intelligence" >>, << ok >>)
               c1 == [Cur EXCEPT !.allArticles = fallback, !.listOwner = f]
           IN  End(i,
                   IF Len(fallback) > 0
                     THEN [Finish(c1, "fallback") EXCEPT !.errorBanner = "limited"]
                     ELSE [c1 EXCEPT !.grid = Grid("failed", << >>),
                                     !.outcome = "failed"],
                   ~(inflight[i].anyOk \/ ok), FALSE, TRUE)

-----------------------------------------------------------------------------
(* Initial states *)

\* an article of an earlier session, in the shape the variant caches
OldArticle(v, n) ==
  IF v = "v4"
    THEN [id |-> << "hn", n >>, title |-> TitleOf(HNBases, n), points |-> PointsOf(n)]
    ELSE HNHit(n)

\* what an earlier session left under filter f
OldList(v, f) ==
  SortByPoints(<< OldArticle(v, FilterBase(f) + 90), OldArticle(v, FilterBase(f) + 94) >>)

OldEntry(v, f, ts) == [ts |-> ts, articles |-> OldList(v, f)]

\* an entry of the store whose article list is empty, CACHE_TTL old at
\* page load
EmptyEntry == [ts |-> 1, articles |-> << >>]

\* the store at page load: absent, corrupt, holding one entry of an
\* earlier session that is CACHE_TTL + 1 or exactly CACHE_TTL old, or
\* holding under 'all' a fresh entry with an empty list
InitBlobs(v) ==
  {Blob(k, NoEntries) : k \in {"missing", "garbage", "null", "number", "array"}}
  \cup {Blob("object", [g \in {f} |-> OldEntry(v, f, ts)]) :
          f \in Filters(v), ts \in {0, 1}}
  \cup {Blob("object", [g \in {"all"} |-> EmptyEntry])}

Init ==
  /\ variant \in Variants
  /\ phase = "init"
  /\ now = BootTime
  /\ ticks = 0
  /\ started = 0
  /\ allArticles = << >>
  /\ filtered = << >>
  /\ displayedCount = 0
  /\ currentFilter = "all"
  /\ isLoading = FALSE
  /\ activeBtn = "all"
  /\ grid = Skeletons
  /\ loadMoreWrap = FALSE
  /\ errorBanner = "hidden"
  /\ blob \in InitBlobs(variant)
  /\ inflight = << >>
  /\ listOwner = "none"
  /\ written = (IF blob.kind = "object" THEN blob.entries ELSE NoEntries)
  /\ last = Last("init", "all", FALSE, 0, "none", FALSE, FALSE, TRUE)

Next ==
  \/ Boot
  \/ \E f \in Filters(variant) : Click(f)
  \/ Tick
  \/ LoadMore
  \/ \E t \in TimePoints : Advance(t)
  \/ \E i \in 1..MaxInFlight : V2FirstSettles(i)
  \/ \E i \in 1..MaxInFlight : V2WidenedSettles(i)
  \/ \E i \in 1..MaxInFlight : V3FirstSettles(i)
  \/ \E i \in 1..MaxInFlight : V3WidenedSettles(i)
  \/ \E i \in 1..MaxInFlight : V4MainSettles(i)
  \/ \E i \in 1..MaxInFlight : V4FallbackSettles(i)

Spec == Init /\ [][Next]_vars

-----------------------------------------------------------------------------
(* One aggregation of the multi-query variants, request by request: the    *)
(* requests of a fan-out are issued together, settle one by one in any     *)
(* order, and the code after the await runs once the join resolves.        *)

\* the requests of a fan-out, just issued
Pending(n) == [k \in 1..n |-> "pending"]

\* Promise.allSettled / Promise.all over promises that never reject:
\* the join resolves when no request is pending
AllSettled(status) == \A k \in DOMAIN status : status[k] # "pending"

\* b.status === 'fulfilled' per request (part_001: the response was kept
\* rather than replaced by [])
Fulfilled(status) == [k \in DOMAIN status |-> status[k] = "fulfilled"]

\* the aggregation of filter f starts: its first fan-out is issued
FanLoad(v, f) ==
  [filter |-> f, stage |-> IF v = "v4" THEN "main" ELSE "day1",
   results |-> << >>, anyOk |-> FALSE,
   status |-> Pending(FirstRequests(v, f)), first |-> << >>,
   widened |-> FALSE]

FanInit ==
  /\ variant \in {"v3", "v4"}
  /\ phase = "fan"
  /\ now = BootTime
  /\ ticks = 0
  /\ started = 1
  /\ allArticles = << >>
  /\ filtered = << >>
  /\ displayedCount = 0
  /\ currentFilter \in Filters(variant)
  /\ isLoading = (variant = "v3")
  /\ activeBtn = currentFilter
  /\ grid = Skeletons
  /\ loadMoreWrap = FALSE
  /\ errorBanner = "hidden"
  /\ blob = Blob("missing", NoEntries)
  /\ inflight = << FanLoad(variant, currentFilter) >>
  /\ listOwner = "none"
  /\ written = NoEntries
  /\ last = Last("load", currentFilter, FALSE,
                 FirstRequests(variant, currentFilter), "none", FALSE, FALSE, TRUE)

\* what a step of the aggregation leaves alone
FanFrame ==
  UNCHANGED << variant, filtered, phase, now, ticks, started, displayedCount, currentFilter,
               isLoading, activeBtn, grid, loadMoreWrap, errorBanner, blob,
               written >>

\* how a request can go: answered with a list, no answer at all, a non-OK
\* HTTP status, a body that is not JSON
Outcomes == {"ok", "network", "status", "garbage"}

\* part_000 fetchOne: fetch rejects, `throw new Error(...)` on a non-OK
\* status, res.json() rejects: every failure rejects the promise
fetchOne(outcome) == IF outcome = "ok" THEN "fulfilled" ELSE "rejected"

\* fetch(url): rejects when the network fails, else resolves to a response
FetchPromise(outcome) == IF outcome = "network" THEN "rejected" ELSE "response"

\* part_001 fetchDevTo: .then(r => r.ok ? r.json() : []); a rejected promise
\* passes through, r.json() rejects on a body that does not parse
ThenJson(p, outcome) ==
  IF p = "rejected" THEN "rejected"
  ELSE IF outcome = "status" THEN "empty"
  ELSE IF outcome = "garbage" THEN "rejected"
  ELSE "fulfilled"

\* a promise chain without its handler for rejections
CatchEmpty_Missing(p) == p

\* part_001 fetchDevTo: .catch(() => []); fetchHN: catch { return []; }
CatchEmpty(p) == IF p = "rejected" THEN "empty" ELSE p

\* part_001 fetchDevTo: the promise of one tag
DevToTagPromise(outcome) == CatchEmpty(ThenJson(FetchPromise(outcome), outcome))

\* part_001 fetchHN: the body of its try block (await fetch; if (!res.ok)
\* return []; await res.json(); map)
fetchHNTry(outcome) ==
  CASE outcome = "network" -> "rejected"
    [] outcome = "status" -> "empty"
    [] outcome = "garbage" -> "rejected"
    [] outcome = "ok" -> "fulfilled"

\* part_001 fetchHN(query)
fetchHNPromise(outcome) == CatchEmpty(fetchHNTry(outcome))

\* Promise.all rejects as soon as one of its promises does
AnyRejected(status) == \E k \in DOMAIN status : status[k] = "rejected"

\* the k-th request of the fan-out in flight settles
Settle(k, outcome) ==
  /\ phase = "fan"
  /\ inflight[1].stage \notin {"returned", "caught"}
  /\ k \in DOMAIN inflight[1].status
  /\ inflight[1].status[k] = "pending"
  /\ inflight' = [inflight EXCEPT ![1].status[k] =
                    IF variant = "v3" THEN fetchOne(outcome)
                    ELSE IF k <= Len(FILTERS_devto(inflight[1].filter))
                      THEN DevToTagPromise(outcome)
                      ELSE fetchHNPromise(outcome)]
  /\ last' = Last("settle", inflight[1].filter, FALSE, 0, "none", FALSE, FALSE, TRUE)
  /\ UNCHANGED << allArticles, listOwner >>
  /\ FanFrame

\* part_000 fetchAll: the code after the first await
JoinV3First ==
  /\ phase = "fan"
  /\ variant = "v3"
  /\ inflight[1].stage = "day1"
  /\ AllSettled(inflight[1].status)
  /\ LET f == inflight[1].filter
         ok == Fulfilled(inflight[1].status)
         results == CollectBatches(<< >>, BatchesV3(f, 1), ok)
     IN  IF IsSparseV3(results)
           THEN /\ inflight' = [inflight EXCEPT ![1].stage = "day3",
                                                ![1].results = results,
                                                ![1].anyOk = AnyOk(ok),
                                                ![1].first = inflight[1].status,
                                                ![1].widened = TRUE,
                                                ![1].status = Pending(FILTER_QUERIES(f))]
                /\ last' = Last("widen", f, FALSE, FILTER_QUERIES(f), "none",
                                FALSE, FALSE, TRUE)
                /\ UNCHANGED << allArticles, listOwner >>
           ELSE /\ inflight' = [inflight EXCEPT ![1].stage = "returned",
                                                ![1].results = results,
                                                ![1].anyOk = AnyOk(ok),
                                                ![1].first = inflight[1].status]
                /\ allArticles' = RankV3(results)
                /\ listOwner' = f
                /\ last' = Last("join", f, FALSE, 0, "none", ~AnyOk(ok), FALSE, TRUE)
  /\ FanFrame

\* part_000 fetchAll: the code after the second await
JoinV3Widened ==
  /\ phase = "fan"
  /\ variant = "v3"
  /\ inflight[1].stage = "day3"
  /\ AllSettled(inflight[1].status)
  /\ LET f == inflight[1].filter
         ok == Fulfilled(inflight[1].status)
     IN  /\ inflight' = [inflight EXCEPT ![1].stage = "returned",
                                         ![1].anyOk = @ \/ AnyOk(ok)]
         /\ allArticles' = WidenedListV3(f, inflight[1].results, ok)
         /\ listOwner' = f
         /\ last' = Last("join", f, FALSE, 0, "none",
                         ~(inflight[1].anyOk \/ AnyOk(ok)), FALSE, TRUE)
  /\ FanFrame

\* part_001 load: allArticles = merge(devto, hn) once both fetchers returned
JoinV4 ==
  /\ phase = "fan"
  /\ variant = "v4"
  /\ inflight[1].stage = "main"
  /\ AllSettled(inflight[1].status) \/ AnyRejected(inflight[1].status)
  /\ LET f == inflight[1].filter
         ok == Fulfilled(inflight[1].status)
         tags == FILTERS_devto(f)
     IN  IF AnyRejected(inflight[1].status)
           THEN /\ inflight' = [inflight EXCEPT ![1].stage = "caught"]
                /\ last' = Last("catch", f, FALSE, 0, "none", FALSE, FALSE, TRUE)
                /\ UNCHANGED << allArticles, listOwner >>
           ELSE /\ inflight' = [inflight EXCEPT ![1].stage = "returned",
                                                ![1].anyOk = AnyOk(ok)]
                /\ allArticles' = merge(fetchDevTo(tags, SubSeq(ok, 1, Len(tags))),
                                        fetchHNv4(f, ok[Len(tags) + 1]))
                /\ listOwner' = f
                /\ last' = Last("join", f, FALSE, 0, "none", ~AnyOk(ok), FALSE, TRUE)
  /\ FanFrame

FanNext ==
  \/ \E k \in DOMAIN inflight[1].status, outcome \in Outcomes : Settle(k, outcome)
  \/ JoinV3First
  \/ JoinV3Widened
  \/ JoinV4

SpecFanOut == FanInit /\ [][FanNext]_vars

-----------------------------------------------------------------------------
(* One aggregation as a function of what the upstream APIs answer: every   *)
(* request succeeds, and the responses range over all sizes up to          *)
(* MaxBatch.                                                               *)

\* n HN hits: the top story 101, then the hits numbered after `start`
HNRange(start, n) ==
  [k \in 1..n |-> HNHit(IF k = 1 THEN 101 ELSE start + k)]

\* n dev.to records, numbered the same way
DevToRange(start, n) ==
  [k \in 1..n |-> DevToRecord(IF k = 1 THEN 101 ELSE start + k)]

\* an aggregation whose first query answers `first` hits a day and whose
\* second query answers `second`
AggLoad(v, f, first, second) ==
  [filter |-> f, stage |-> IF v = "v4" THEN "main" ELSE "day1",
   first |-> first, second |-> second, results |-> << >>,
   widened |-> FALSE, fallback |-> FALSE, merged |-> << >>]

\* the HN batches of a window of `days` days: the wider window has two
\* more hits of the first query; the two queries overlap in five hits
AggBatches(load, days) ==
  << HNRange(100, load.first + (days - 1)),
     HNRange(100 + MaxBatch - 5, load.second) >>

\* app.js asks one query: its hits are those of both batches
AggHits(load, days) == AggBatches(load, days)[1] \o AggBatches(load, days)[2]

\* part_001: the dev.to batches (the second tag repeats the head of the
\* first) and the HN response
AggDevTo(load) ==
  << DevToRange(100, load.first), DevToRange(100, Min(load.first, 3)) >>

AggHN(load) == HNRange(100 + MaxBatch - 5, load.second)

\* part_001: what dev.to lists under the broader tag
AggBroader(load) == DevToRange(100, 2 * MaxBatch + 5 - load.first - load.second)

AggInit ==
  /\ variant \in Variants
  /\ phase = "agg"
  /\ now = BootTime
  /\ ticks = 0
  /\ started = 1
  /\ allArticles = << >>
  /\ filtered = << >>
  /\ displayedCount = 0
  /\ currentFilter \in (IF variant = "v4" THEN Filters(variant) ELSE {"all"})
  /\ isLoading = (variant = "v3")
  /\ activeBtn = currentFilter
  /\ grid = Skeletons
  /\ loadMoreWrap = FALSE
  /\ errorBanner = "hidden"
  /\ blob = Blob("missing", NoEntries)
  /\ \E first \in 0..MaxBatch, second \in {0, 2, MaxBatch} :
       inflight = << AggLoad(variant, currentFilter, first, second) >>
  /\ listOwner = "none"
  /\ written = NoEntries
  /\ last = Last("load", currentFilter, FALSE,
                 FirstRequests(variant, currentFilter), "none", FALSE, FALSE, TRUE)

\* the aggregation returns `list`
AggReturn(load, list) ==
  /\ inflight' = << [load EXCEPT !.stage = "returned"] >>
  /\ allArticles' = list
  /\ listOwner' = load.filter
  /\ last' = Last("join", load.filter, FALSE, 0, "none", FALSE, FALSE, TRUE)

\* the aggregation goes on to a further request
AggAwait(load, op) ==
  /\ inflight' = << load >>
  /\ last' = Last(op, load.filter, FALSE, 1, "none", FALSE, FALSE, TRUE)
  /\ UNCHANGED << allArticles, listOwner >>

\* fetchArticles / fetchAll after the 1-day window answered
AggFirst ==
  /\ phase = "agg"
  /\ inflight[1].stage = "day1"
  /\ LET load == inflight[1]
     IN  IF variant = "v2"
           THEN LET hits == AggHits(load, 1)
                IN  IF IsSparseV2(hits)
                      THEN AggAwait([load EXCEPT !.stage = "day3",
                                                 !.widened = TRUE], "widen")
                      ELSE AggReturn(load, RankV2(hits))
           ELSE LET results == CollectBatches(<< >>, AggBatches(load, 1),
                                              << TRUE, TRUE >>)
                IN  IF IsSparseV3(results)
                      THEN AggAwait([load EXCEPT !.stage = "day3",
                                                 !.results = results,
                                                 !.widened = TRUE], "widen")
                      ELSE AggReturn([load EXCEPT !.results = results],
                                     RankV3(results))
  /\ FanFrame

\* fetchArticles / fetchAll after the 3-day window answered
AggWidened ==
  /\ phase = "agg"
  /\ inflight[1].stage = "day3"
  /\ LET load == inflight[1]
     IN  IF variant = "v2"
           THEN AggReturn(load, RankV2(AggHits(load, 3)))
           ELSE AggReturn(load,
                          RankV3(CollectBatches(load.results, AggBatches(load, 3),
                                                << TRUE, TRUE >>)))
  /\ FanFrame

\* part_001 load: merge, funding post-filter, and the choice of the fallback
AggMerge ==
  /\ phase = "agg"
  /\ inflight[1].stage = "main"
  /\ LET load == inflight[1]
         merged == merge(CollectDevTo(<< >>, {}, AggDevTo(load)), MapHN(AggHN(load)))
         list == ApplyFilterV4(load.filter, merged)
     IN  IF Len(list) > 0
           THEN AggReturn([load EXCEPT !.merged = merged], list)
           ELSE /\ inflight' = << [load EXCEPT !.stage = "fallback",
                                               !.merged = merged] >>
                /\ allArticles' = list
                /\ listOwner' = load.filter
                /\ last' = Last("fallback", load.filter, FALSE, 1, "none",
                                FALSE, FALSE, TRUE)
  /\ FanFrame

\* part_001 load: allArticles = await fetchDevTo(['artificial-intelligence'])
AggFallback ==
  /\ phase = "agg"
  /\ inflight[1].stage = "fallback"
  /\ LET load == inflight[1]
     IN  AggReturn([load EXCEPT !.fallback = TRUE],
                   CollectDevTo(<< >>, {}, << AggBroader(load) >>))
  /\ FanFrame

AggNext ==
  \/ AggFirst
  \/ AggWidened
  \/ AggMerge
  \/ AggFallback

SpecAggregate == AggInit /\ [][AggNext]_vars

-----------------------------------------------------------------------------
(* The auto-tagger, applied to the title of one card.  A title is here a   *)
(* sequence of phrases, joined by single spaces.                           *)

\* app.js TAG_MAP
TAG_MAP_v2 ==
  <<
    [label |-> "LLM", words |-> <<
      <<"l","l","m">>,
      <<"l","a","n","g","u","a","g","e"," ","m","o","d","e","l">>,
      <<"g","p","t">>,
      <<"c","h","a","t","g","p","t">>,
      <<"c","l","a","u","d","e">>,
      <<"g","e","m","i","n","i">>,
      <<"m","i","s","t","r","a","l">>,
      <<"l","l","a","m","a">> >>],
    [label |-> "Research", words |-> <<
      <<"r","e","s","e","a","r","c","h">>,
      <<"p","a","p","e","r">>,
      <<"a","r","x","i","v">>,
      <<"s","t","u","d","y">>,
      <<"b","e","n","c","h","m","a","r","k">> >>],
    [label |-> "Open Source", words |-> <<
      <<"o","p","e","n"," ","s","o","u","r","c","e">>,
      <<"o","p","e","n","-","s","o","u","r","c","e">>,
      <<"h","u","g","g","i","n","g","f","a","c","e">>,
      <<"o","l","l","a","m","a">>,
      <<"l","l","a","m","a">>,
      <<"m","i","s","t","r","a","l">> >>],
    [label |-> "Robotics", words |-> <<
      <<"r","o","b","o","t">>,
      <<"r","o","b","o","t","i","c">>,
      <<"a","u","t","o","n","o","m","o","u","s">>,
      <<"d","r","o","n","e">> >>],
    [label |-> "Image/Video", words |-> <<
      <<"i","m","a","g","e">>,
      <<"v","i","d","e","o">>,
      <<"d","i","f","f","u","s","i","o","n">>,
      <<"s","o","r","a">>,
      <<"m","i","d","j","o","u","r","n","e","y">>,
      <<"s","t","a","b","l","e"," ","d","i","f","f","u","s","i","o","n">>,
      <<"d","a","l","l","-","e">> >>],
    [label |-> "Safety", words |-> <<
      <<"s","a","f","e","t","y">>,
      <<"a","l","i","g","n","m","e","n","t">>,
      <<"b","i","a","s">>,
      <<"e","t","h","i","c","s">>,
      <<"r","e","g","u","l","a","t","i","o","n">> >>],
    [label |-> "Business", words |-> <<
      <<"s","t","a","r","t","u","p">>,
      <<"f","u","n","d","i","n","g">>,
      <<"v","a","l","u","a","t","i","o","n">>,
      <<"a","c","q","u","i","s","i","t","i","o","n">>,
      <<"r","e","v","e","n","u","e">>,
      <<"r","a","i","s","e","s">> >>]
  >>

\* part_000 TAGS
TAGS_v3 ==
  <<
    [label |-> "LLM", words |-> <<
      <<"l","l","m">>,
      <<"l","a","n","g","u","a","g","e"," ","m","o","d","e","l">>,
      <<"g","p","t">>,
      <<"c","h","a","t","g","p","t">>,
      <<"c","l","a","u","d","e">>,
      <<"g","e","m","i","n","i">>,
      <<"m","i","s","t","r","a","l">>,
      <<"l","l","a","m","a">> >>],
    [label |-> "Research", words |-> <<
      <<"r","e","s","e","a","r","c","h">>,
      <<"p","a","p","e","r">>,
      <<"a","r","x","i","v">>,
      <<"s","t","u","d","y">>,
      <<"b","e","n","c","h","m","a","r","k">>,
      <<"d","a","t","a","s","e","t">> >>],
    [label |-> "Open Source", words |-> <<
      <<"o","p","e","n"," ","s","o","u","r","c","e">>,
      <<"o","p","e","n","-","s","o","u","r","c","e">>,
      <<"h","u","g","g","i","n","g","f","a","c","e">>,
      <<"o","l","l","a","m","a">>,
      <<"l","l","a","m","a">>,
      <<"m","i","s","t","r","a","l">> >>],
    [label |-> "Robotics", words |-> <<
      <<"r","o","b","o","t">>,
      <<"r","o","b","o","t","i","c">>,
      <<"a","u","t","o","n","o","m","o","u","s">>,
      <<"d","r","o","n","e">> >>],
    [label |-> "Image/Video", words |-> <<
      <<"i","m","a","g","e">>,
      <<"v","i","d","e","o">>,
      <<"d","i","f","f","u","s","i","o","n">>,
      <<"s","o","r","a">>,
      <<"m","i","d","j","o","u","r","n","e","y">>,
      <<"s","t","a","b","l","e"," ","d","i","f","f","u","s","i","o","n">>,
      <<"d","a","l","l","-","e">> >>],
    [label |-> "Safety", words |-> <<
      <<"s","a","f","e","t","y">>,
      <<"a","l","i","g","n","m","e","n","t">>,
      <<"b","i","a","s">>,
      <<"e","t","h","i","c","s">>,
      <<"r","e","g","u","l","a","t","i","o","n">> >>],
    [label |-> "Business", words |-> <<
      <<"s","t","a","r","t","u","p">>,
      <<"f","u","n","d","i","n","g">>,
      <<"v","a","l","u","a","t","i","o","n">>,
      <<"a","c","q","u","i","s","i","t","i","o","n">>,
      <<"r","e","v","e","n","u","e">>,
      <<"r","a","i","s","e","s">>,
      <<"b","i","l","l","i","o","n">> >>]
  >>

\* part_001 TAG_MAP
TAG_MAP_v4 ==
  <<
    [label |-> "LLM", words |-> <<
      <<"l","l","m">>,
      <<"l","a","n","g","u","a","g","e"," ","m","o","d","e","l">>,
      <<"g","p","t">>,
      <<"c","h","a","t","g","p","t">>,
      <<"c","l","a","u","d","e">>,
      <<"g","e","m","i","n","i">>,
      <<"m","i","s","t","r","a","l">>,
      <<"l","l","a","m","a">> >>],
    [label |-> "Research", words |-> <<
      <<"r","e","s","e","a","r","c","h">>,
      <<"p","a","p","e","r">>,
      <<"a","r","x","i","v">>,
      <<"s","t","u","d","y">>,
      <<"b","e","n","c","h","m","a","r","k">> >>],
    [label |-> "Open Source", words |-> <<
      <<"o","p","e","n"," ","s","o","u","r","c","e">>,
      <<"o","p","e","n","-","s","o","u","r","c","e">>,
      <<"h","u","g","g","i","n","g","f","a","c","e">>,
      <<"l","l","a","m","a">>,
      <<"m","i","s","t","r","a","l">>,
      <<"o","l","l","a","m","a">> >>],
    [label |-> "Robotics", words |-> <<
      <<"r","o","b","o","t">>,
      <<"r","o","b","o","t","i","c">>,
      <<"a","u","t","o","n","o","m","o","u","s">>,
      <<"d","r","o","n","e">> >>],
    [label |-> "Image/Video", words |-> <<
      <<"i","m","a","g","e">>,
      <<"v","i","d","e","o">>,
      <<"d","i","f","f","u","s","i","o","n">>,
      <<"s","o","r","a">>,
      <<"m","i","d","j","o","u","r","n","e","y">>,
      <<"d","a","l","l","-","e">>,
      <<"s","t","a","b","l","e"," ","d","i","f","f","u","s","i","o","n">> >>],
    [label |-> "Safety", words |-> <<
      <<"s","a","f","e","t","y">>,
      <<"a","l","i","g","n","m","e","n","t">>,
      <<"b","i","a","s">>,
      <<"e","t","h","i","c","s">>,
      <<"r","e","g","u","l","a","t","i","o","n">> >>],
    [label |-> "Funding", words |-> <<
      <<"r","a","i","s","e","s">>,
      <<"r","a","i","s","e","d">>,
      <<"f","u","n","d","i","n","g">>,
      <<"s","e","r","i","e","s"," ","a">>,
      <<"s","e","r","i","e","s"," ","b">>,
      <<"s","e","r","i","e","s"," ","c">>,
      <<"s","e","e","d">>,
      <<"i","n","v","e","s","t","m","e","n","t">>,
      <<"m","i","l","l","i","o","n">>,
      <<"b","i","l","l","i","o","n">>,
      <<"i","p","o">>,
      <<"u","n","i","c","o","r","n">>,
      <<"v","e","n","t","u","r","e">>,
      <<"v","a","l","u","a","t","i","o","n">>,
      <<"b","a","c","k","e","d">> >>],
    [label |-> "Acquisition", words |-> <<
      <<"a","c","q","u","i">>,
      <<"a","c","q","u","i","r","e","d">>,
      <<"a","c","q","u","i","s","i","t","i","o","n">>,
      <<"m","e","r","g","e","r">>,
      <<"b","u","y","s">>,
      <<"b","o","u","g","h","t">> >>]
  >>

\* the phrases titles are made of
PhraseChars ==
  "ChatGPT" :> <<"C","h","a","t","G","P","T">> @@
  "Llama 3" :> <<"L","l","a","m","a"," ","3">> @@
  "arXiv paper" :> <<"a","r","X","i","v"," ","p","a","p","e","r">> @@
  "Robotics" :> <<"R","o","b","o","t","i","c","s">> @@
  "Video" :> <<"V","i","d","e","o">> @@
  "unbiased" :> <<"u","n","b","i","a","s","e","d">> @@
  "raises $1 billion" :> <<"r","a","i","s","e","s"," ","$","1"," ","b","i","l","l","i","o","n">> @@
  "Acquisition" :> <<"A","c","q","u","i","s","i","t","i","o","n">> @@
  "weather" :> <<"w","e","a","t","h","e","r">>

\* how many phrases a title has at most
MaxWords == 3

Phrases == DOMAIN PhraseChars

\* the titles of up to MaxWords different phrases, the empty one included
\* (part_000 passes a.title || '', part_001 tests title || '')
TagTitles ==
  UNION {{t \in [1..n -> Phrases] : \A i, j \in 1..n : i # j => t[i] # t[j]} :
           n \in 0..MaxWords}

RECURSIVE JoinPhrases(_)
JoinPhrases(t) ==
  IF Len(t) = 0 THEN << >>
  ELSE IF Len(t) = 1 THEN PhraseChars[t[1]]
  ELSE JoinPhrases(SubSeq(t, 1, Len(t) - 1)) \o << " " >> \o PhraseChars[t[Len(t)]]

TAG_MAP(v) ==
  CASE v = "v2" -> TAG_MAP_v2
    [] v = "v3" -> TAGS_v3
    [] v = "v4" -> TAG_MAP_v4

\* the tagger comparing the title as it is written
getTags_CaseSensitive(v, title) ==
  LET rows == SelectSeq(TAG_MAP(v),
                        LAMBDA row : \E k \in 1..Len(row.words) :
                                       includes(title, row.words[k]))
  IN  Take([k \in 1..Len(rows) |-> rows[k].label], 3)

\* getTags(title) / autoTags(title):
\* TAG_MAP.filter(({ words }) => words.some(w => lower.includes(w)))
\*        .map(({ tag }) => tag).slice(0, 3)
getTags(v, title) ==
  LET lower == toLowerCase(title)
      rows == SelectSeq(TAG_MAP(v),
                        LAMBDA row : \E k \in 1..Len(row.words) :
                                       includes(lower, row.words[k]))
  IN  Take([k \in 1..Len(rows) |-> rows[k].label], 3)

TagInit ==
  /\ variant \in Variants
  /\ phase = "tag"
  /\ now = BootTime
  /\ ticks = 0
  /\ started = 1
  /\ allArticles \in {<< [title |-> t] >> : t \in TagTitles}
  /\ filtered = << >>
  /\ displayedCount = 0
  /\ currentFilter = "all"
  /\ isLoading = FALSE
  /\ activeBtn = "all"
  /\ grid = Skeletons
  /\ loadMoreWrap = FALSE
  /\ errorBanner = "hidden"
  /\ blob = Blob("missing", NoEntries)
  /\ inflight = << >>
  /\ listOwner = "all"
  /\ written = NoEntries
  /\ last = Last("init", "all", FALSE, 0, "none", FALSE, FALSE, TRUE)

\* buildCard(article): const tags = getTags(title)
BuildCard ==
  /\ phase = "tag"
  /\ grid.kind = "skeleton"
  /\ grid' = Grid("cards",
                  << [title |-> allArticles[1].title,
                      tags |-> getTags(variant, JoinPhrases(allArticles[1].title))] >>)
  /\ displayedCount' = 1
  /\ last' = Last("card", currentFilter, FALSE, 0, "none", FALSE, FALSE, TRUE)
  /\ UNCHANGED << variant, filtered, phase, now, ticks, started, allArticles, currentFilter,
                  isLoading, activeBtn, loadMoreWrap, errorBanner, blob, inflight,
                  listOwner, written >>

TagNext == BuildCard

SpecTagger == TagInit /\ [][TagNext]_vars

-----------------------------------------------------------------------------
(* The static-feed script (src/app.js lines 1-195): one fetch of           *)
(* articles.json at page load, filters applied in the browser.             *)

PAGE_SIZE_v5 == 15

MaxFeed == 17

\* app.js FUNDING_WORDS
FUNDING_WORDS ==
  <<
    <<"r","a","i","s","e","s">>,
    <<"r","a","i","s","e","d">>,
    <<"f","u","n","d","i","n","g">>,
    <<"s","e","r","i","e","s"," ","a">>,
    <<"s","e","r","i","e","s"," ","b">>,
    <<"s","e","r","i","e","s"," ","c">>,
    <<"s","e","r","i","e","s"," ","d">>,
    <<"s","e","e","d"," ","r","o","u","n","d">>,
    <<"i","n","v","e","s","t","m","e","n","t">>,
    <<"v","e","n","t","u","r","e">>,
    <<"m","i","l","l","i","o","n">>,
    <<"b","i","l","l","i","o","n">>,
    <<"i","p","o">>,
    <<"u","n","i","c","o","r","n">>,
    <<"v","a","l","u","a","t","i","o","n">>,
    <<"s","e","c","u","r","e","s">>,
    <<"s","e","c","u","r","e","d">>,
    <<"b","a","c","k","e","d">>,
    <<"a","c","q","u","i","s","i","t","i","o","n">>,
    <<"a","c","q","u","i","r","e","s">>
  >>

\* the filter buttons: every article, the funding rule, one plain category
FiltersV5 == {"all", "funding", "research"}

\* the categories of the feed; "" is an article without a category
FeedCategories == << "research", "funding", "product", "" >>

\* the n-th article of articles.json
FeedArticle(n) ==
  [id |-> n, title |-> TitleOf(DevToBases, n),
   category |-> FeedCategories[(n % 4) + 1]]

\* the article before the first one of an edition of the feed
FeedStarts == {200, 201, 202}

\* data.articles || [] for the edition after `first`, n articles long
Feed(first, n) == [k \in 1..n |-> FeedArticle(first + k)]

\* FUNDING_WORDS.some(w => t.includes(w)) with t = (article.title || '').toLowerCase()
HasFundingWord(t) ==
  LET low == toLowerCase(TitleChars(t))
  IN  \E k \in 1..Len(FUNDING_WORDS) : includes(low, FUNDING_WORDS[k])

\* HasFundingWord, computed once per title of the feed
FundingWordTitles ==
  {t \in {FeedArticle(first + k).title : first \in FeedStarts, k \in 1..MaxFeed} :
     HasFundingWord(t)}

\* matchesFilter(article, filter)
matchesFilter(article, filter) ==
  IF filter = "all" THEN TRUE
  ELSE IF filter = "funding"
    THEN article.category = "funding" \/ article.title \in FundingWordTitles
  ELSE article.category = filter

\* the part of the state applyFilter and renderPage rewrite
CurV5 ==
  [filtered |-> filtered, displayedCount |-> displayedCount, grid |-> grid,
   loadMoreWrap |-> loadMoreWrap, currentFilter |-> currentFilter]

\* renderPage() of the static-feed script
renderPage(c) ==
  LET slice == SubSeq(c.filtered, c.displayedCount + 1,
                      Min(c.displayedCount + PAGE_SIZE_v5, Len(c.filtered)))
  IN  [c EXCEPT !.grid = Grid("cards", c.grid.cards \o slice),
                !.displayedCount = c.displayedCount + Len(slice),
                !.loadMoreWrap = c.displayedCount + Len(slice) < Len(c.filtered)]

\* applyFilter(filter) over the list `articles`
applyFilter(c, articles, filter) ==
  LET kept == SelectSeq(articles, LAMBDA a : matchesFilter(a, filter))
      c1 == [c EXCEPT !.currentFilter = filter, !.displayedCount = 0,
                      !.filtered = kept, !.grid = Grid("cards", << >>),
                      !.loadMoreWrap = FALSE]
  IN  IF Len(kept) = 0 THEN [c1 EXCEPT !.grid = Grid("empty", << >>)]
      ELSE renderPage(c1)

CommitV5(r) ==
  /\ filtered' = r.filtered
  /\ displayedCount' = r.displayedCount
  /\ grid' = r.grid
  /\ loadMoreWrap' = r.loadMoreWrap
  /\ currentFilter' = r.currentFilter

StaticInit ==
  /\ variant = "v5"
  /\ phase = "init"
  /\ now = BootTime
  /\ ticks = 0
  /\ started = 0
  /\ allArticles = << >>
  /\ filtered = << >>
  /\ displayedCount = 0
  /\ currentFilter = "all"
  /\ isLoading = FALSE
  /\ activeBtn = "all"
  /\ grid = Skeletons
  /\ loadMoreWrap = FALSE
  /\ errorBanner = "hidden"
  /\ blob = Blob("missing", NoEntries)
  /\ inflight = << >>
  /\ listOwner = "none"
  /\ written = NoEntries
  /\ last = Last("init", "all", FALSE, 0, "none", FALSE, FALSE, TRUE)

StaticFrame ==
  UNCHANGED << variant, now, ticks, isLoading, blob, listOwner, written >>

\* the boot call loadArticles(), up to `await fetch(...)`
StaticBoot ==
  /\ variant = "v5"
  /\ phase = "init"
  /\ phase' = "run"
  /\ started' = 1
  /\ grid' = Skeletons
  /\ errorBanner' = "hidden"
  /\ inflight' = << [filter |-> currentFilter, stage |-> "fetch"] >>
  /\ last' = Last("load", currentFilter, FALSE, 1, "none", FALSE, FALSE, TRUE)
  /\ StaticFrame
  /\ UNCHANGED << allArticles, filtered, displayedCount, currentFilter,
                  activeBtn, loadMoreWrap >>

\* loadArticles applying the 'all' filter whatever was clicked meanwhile
\* (`applyFilter('all')`)
FeedArrives_IgnoresClick(first, n) ==
  /\ variant = "v5"
  /\ phase = "run"
  /\ Len(inflight) = 1
  /\ first \in FeedStarts
  /\ n \in 0..MaxFeed
  /\ allArticles' = Feed(first, n)
  /\ IF n = 0
       THEN /\ grid' = Grid("empty", << >>)
            /\ UNCHANGED << filtered, displayedCount, loadMoreWrap, currentFilter >>
       ELSE CommitV5(applyFilter(CurV5, Feed(first, n), "all"))
  /\ inflight' = << >>
  /\ last' = Last("done", currentFilter', FALSE, 0,
                  IF n = 0 THEN "empty" ELSE "fresh", FALSE, FALSE, TRUE)
  /\ StaticFrame
  /\ UNCHANGED << phase, started, activeBtn, errorBanner >>

\* loadArticles after its awaits, the response being the edition after
\* `first`, n articles long
FeedArrives(first, n) ==
  /\ variant = "v5"
  /\ phase = "run"
  /\ Len(inflight) = 1
  /\ first \in FeedStarts
  /\ n \in 0..MaxFeed
  /\ allArticles' = Feed(first, n)
  /\ IF n = 0
       THEN /\ grid' = Grid("empty", << >>)
            /\ UNCHANGED << filtered, displayedCount, loadMoreWrap, currentFilter >>
       ELSE CommitV5(applyFilter(CurV5, Feed(first, n), currentFilter))
  /\ inflight' = << >>
  /\ last' = Last("done", currentFilter', FALSE, 0,
                  IF n = 0 THEN "empty" ELSE "fresh", FALSE, FALSE, TRUE)
  /\ StaticFrame
  /\ UNCHANGED << phase, started, activeBtn, errorBanner >>

\* loadArticles' catch branch: fetch rejected ("network"), !res.ok
\* ("status"), res.json() rejected ("garbage")
FeedFails(outcome) ==
  /\ variant = "v5"
  /\ phase = "run"
  /\ Len(inflight) = 1
  /\ outcome \in {"network", "status", "garbage"}
  /\ grid' = Grid("failed", << >>)
  /\ errorBanner' = "failed"
  /\ inflight' = << >>
  /\ last' = Last("done", currentFilter, FALSE, 0, "failed", TRUE, FALSE, TRUE)
  /\ StaticFrame
  /\ UNCHANGED << phase, started, allArticles, filtered, displayedCount,
                  currentFilter, activeBtn, loadMoreWrap >>

\* a click on the filter button of f
StaticClick(f) ==
  /\ variant = "v5"
  /\ phase = "run"
  /\ activeBtn' = f
  /\ CommitV5(applyFilter(CurV5, allArticles, f))
  /\ last' = Last("apply", f, FALSE, 0, "none", FALSE, FALSE, TRUE)
  /\ StaticFrame
  /\ UNCHANGED << phase, started, allArticles, errorBanner, inflight >>

\* a click on the load-more button
StaticLoadMore ==
  /\ variant = "v5"
  /\ phase = "run"
  /\ loadMoreWrap
  /\ CommitV5(renderPage(CurV5))
  /\ last' = Last("more", currentFilter, FALSE, 0, "none", FALSE, FALSE, TRUE)
  /\ StaticFrame
  /\ UNCHANGED << phase, started, allArticles, activeBtn, errorBanner, inflight >>

StaticNext ==
  \/ StaticBoot
  \/ \E first \in FeedStarts, n \in 0..MaxFeed : FeedArrives(first, n)
  \/ \E outcome \in {"network", "status", "garbage"} : FeedFails(outcome)
  \/ \E f \in FiltersV5 : StaticClick(f)
  \/ StaticLoadMore

SpecStatic == StaticInit /\ [][StaticNext]_vars

-----------------------------------------------------------------------------
(* Properties of the cache and of the load controller *)

\* C1, as the spec states it: when a load for filter A resolves after the
\* user has selected filter B, A's result is discarded: the step leaves the
\* list in memory and the grid as they were.
C1_StaleLoadDiscarded ==
  [][(last'.op = "done" /\ last'.filter # currentFilter)
       => (allArticles' = allArticles /\ grid' = grid)]_vars

\* C2, as the spec states it: whenever a list is installed as the displayed
\* list (from the cache, the network, the cached fallback or the broader
\* fallback) the first rendered page begins at index 0 of that list.
C2_FirstPageFromIndexZero ==
  (last.op \in {"hit", "done"} /\ last.outcome \in {"cached", "fresh", "fallback"})
    => /\ grid = Grid("cards", Take(allArticles, PAGE_SIZE))
       /\ displayedCount = Min(PAGE_SIZE, Len(allArticles))

\* C3, as the spec states it: when every query of a load failed and the
\* store holds an entry for the filter, however old, the load shows that
\* entry's articles with the cached-data notice; it never ends in the hard
\* failure while the store holds an entry.
C3_StaleEntryServedOnFailure ==
  (last.op = "done" /\ last.allFailed /\ HasEntry(blob, last.filter))
    => /\ last.outcome = "cached"
       /\ errorBanner = "cached"
       /\ allArticles = blob.entries[last.filter].articles

\* C4, as the spec states it: when every query of a load failed and the
\* store holds no entry for the filter, the load ends with no card on the
\* grid and with the error banner visible, in every variant.
C4_HardFailureShowsBanner ==
  (last.op = "done" /\ last.allFailed /\ ~HasEntry(blob, last.filter))
    => (errorBanner # "hidden" /\ grid.kind \in {"empty", "failed"})

C6_EveryNetworkLoadCached ==
  (last.op = "done" /\ last.outcome \in {"fresh", "fallback"})
    => /\ HasEntry(blob, last.filter)
       /\ blob.entries[last.filter] = [ts |-> now, articles |-> allArticles]

\* C6, amended: a load that reaches saveCache, with the store absent or a
\* JSON object and room in localStorage, has written through: right after
\* it, loadCache(filter) returns exactly the displayed list and the entry's
\* ts is the completion time.
C6_WriteThroughWhenStored ==
  [][(last'.op = "done" /\ last'.saved /\ Stored(blob, last'.quota))
       => /\ LoadCache(blob', last'.filter, now') = Found(allArticles')
          /\ HasEntry(blob', last'.filter)
          /\ blob'.entries[last'.filter].ts = now']_vars

\* a load has just replaced an older entry of its filter by its own list
C6_EntryReplaced ==
  /\ last.op = "done"
  /\ last.saved
  /\ last.quota
  /\ HasEntry(blob, last.filter)
  /\ blob.entries[last.filter] = [ts |-> now, articles |-> allArticles]
  /\ Len(allArticles) > Len(OldList(variant, last.filter))

\* C7: an entry that saveCache stored at T is returned by loadCache at every
\* t with t - T <= CACHE_TTL and reported absent at every t with
\* t - T > CACHE_TTL.
C7_TtlBoundary ==
  \A f \in DOMAIN written :
    LoadCache(blob, f, now) =
      IF now - written[f].ts <= CACHE_TTL THEN Found(written[f].articles) ELSE Null

\* an entry stored in this session is exactly CACHE_TTL old
C7_StoredEntryAtTtl ==
  \E f \in DOMAIN written :
    /\ written[f].ts >= BootTime
    /\ now - written[f].ts = CACHE_TTL
    /\ LoadCache(blob, f, now) = Found(written[f].articles)

\* C8: whatever the store holds (nothing, unparseable text, JSON that is no
\* object, an object without the filter) loadCache returns null instead of
\* raising, and a non-forced load then goes to the network.
C8_CorruptStoreReadsAsAbsent ==
  /\ \A f \in Filters(variant) :
       ~HasEntry(blob, f) => LoadCache(blob, f, now) = Null
  /\ (last.op \in {"hit", "load"} /\ ~HasEntry(blob, last.filter))
       => (last.op = "load" /\ last.requests > 0)

\* a load went to the network over a store that does not parse, or parses
\* to null
C8_LoadOverCorruptStore ==
  /\ last.op = "load"
  /\ blob.kind \in {"garbage", "null"}
  /\ last.requests > 0

\* C9: when the write of saveCache fails for lack of room, no exception
\* escapes: the stored blob stays as it was and the load still ends by
\* displaying the list it fetched, without an error notice of its own.
C9_SaveCacheBestEffort ==
  [][(last'.op = "done" /\ last'.saved /\ ~last'.quota)
       => /\ blob' = blob
          /\ last'.outcome = "fresh"
          /\ grid'.kind = "cards"
          /\ listOwner' = last'.filter
          /\ errorBanner' = errorBanner]_vars

\* a load whose saveCache found no room has displayed its list
C9_DisplayedDespiteQuota ==
  /\ last.op = "done"
  /\ last.saved
  /\ ~last.quota
  /\ last.outcome = "fresh"
  /\ grid.kind = "cards"
  /\ Len(grid.cards) > 0

\* C10: the queries of a fan-out are joined only after every one of them
\* has settled, and whatever subset of them failed, every titled article of
\* every query that succeeded is represented in the merged result (by its
\* objectID in part_000, by its normalized title in part_001), short of the
\* cap of 80.
C10_JoinKeepsEverySuccess ==
  (phase = "fan" /\ inflight[1].stage = "returned") =>
    LET load == inflight[1]
        f == load.filter
        ids == {allArticles[j].objectID : j \in 1..Len(allArticles)}
        keys == {DedupKey(allArticles[j].title) : j \in 1..Len(allArticles)}
        Kept(hits) == \A j \in 1..Len(hits) :
                        hits[j].title # NoTitle => hits[j].objectID \in ids
        KeptByTitle(recs) == \A j \in 1..Len(recs) :
                        recs[j].title # NoTitle => DedupKey(recs[j].title) \in keys
        tags == FILTERS_devto(f)
    IN  /\ AllSettled(load.status)
        /\ AllSettled(load.first)
        /\ Len(allArticles) < MaxMerged =>
             IF variant = "v3"
               THEN /\ \A k \in DOMAIN load.first :
                         load.first[k] = "fulfilled" => Kept(HNResponse(f, k, 1))
                    /\ load.widened =>
                         \A k \in DOMAIN load.status :
                           load.status[k] = "fulfilled" => Kept(HNResponse(f, k, 3))
               ELSE /\ \A k \in 1..Len(tags) :
                         load.status[k] = "fulfilled" => KeptByTitle(DevToResponse(tags[k]))
                    /\ load.status[Len(tags) + 1] = "fulfilled" =>
                         KeptByTitle(HNResponse(f, 1, 1))

\* an aggregation has returned a non-empty list although some of its
\* requests failed and others succeeded
C10_PartialFailureJoined ==
  /\ phase = "fan"
  /\ inflight[1].stage = "returned"
  /\ \E k \in DOMAIN inflight[1].status : inflight[1].status[k] \in {"rejected", "empty"}
  /\ \E k \in DOMAIN inflight[1].status : inflight[1].status[k] = "fulfilled"
  /\ Len(allArticles) > 0

\* C11: the list an aggregation produces never holds two articles with the
\* same dedup key (the objectID in app.js and part_000, across both
\* windows; the normalized 60-character title prefix in part_001's merge),
\* and short of the cap every key of the input is in it.
C11_NoDuplicateKeys ==
  (phase = "agg" /\ inflight[1].stage = "returned" /\ ~inflight[1].fallback) =>
    LET load == inflight[1]
        days == IF load.widened THEN 3 ELSE 1
        Ids(hits) == {hits[j].objectID : j \in 1..Len(hits)}
        Titled(hits) == SelectSeq(hits, LAMBDA h : h.title # NoTitle)
        Keys(as) == {DedupKey(as[j].title) : j \in 1..Len(as)}
    IN  IF variant = "v2"
          THEN /\ \A i, j \in 1..Len(allArticles) :
                    i # j => allArticles[i].objectID # allArticles[j].objectID
               /\ Len(allArticles) < MAX_RESULTS =>
                    Ids(allArticles) = Ids(AggHits(load, days))
        ELSE IF variant = "v3"
          THEN /\ \A i, j \in 1..Len(allArticles) :
                    i # j => allArticles[i].objectID # allArticles[j].objectID
               /\ Len(allArticles) < MaxMerged =>
                    Ids(allArticles) =
                      Ids(Titled(AggHits(load, 1)))
                      \cup (IF load.widened THEN Ids(Titled(AggHits(load, 3))) ELSE {})
        ELSE /\ \A i, j \in 1..Len(load.merged) :
                  i # j => DedupKey(load.merged[i].title) # DedupKey(load.merged[j].title)
             /\ \A i, j \in 1..Len(allArticles) :
                  i # j => DedupKey(allArticles[i].title) # DedupKey(allArticles[j].title)
             /\ Len(load.merged) < MaxMerged =>
                  Keys(load.merged) =
                    Keys(Titled(AggDevTo(load)[1])) \cup Keys(Titled(AggHN(load)))

\* merge returned a list although dev.to and HN both sent the long
\* headline, under different ids
C11_SharedPrefixMerged ==
  /\ phase = "agg"
  /\ variant = "v4"
  /\ inflight[1].stage = "returned"
  /\ ~inflight[1].fallback
  /\ Len(inflight[1].merged) > 1
  /\ \E i \in 1..Len(AggDevTo(inflight[1])[1]), j \in 1..Len(AggHN(inflight[1])) :
       LET d == AggDevTo(inflight[1])[1][i]
           h == AggHN(inflight[1])[j]
       IN  /\ d.title[1] = LongHeadline
           /\ h.title[1] = LongHeadline
           /\ d.id # h.objectID

\* C12: when a dev.to record and an HN hit share their normalized title
\* prefix, merge keeps exactly one article of that key, the one met first
\* in dev.to-then-HN order whatever the scores, and the funding post-filter
\* retains it when its title names a funding keyword.
C12_FirstInSourceOrderKept ==
  (phase = "agg" /\ variant = "v4" /\ inflight[1].stage = "returned"
     /\ ~inflight[1].fallback /\ Len(inflight[1].merged) < MaxMerged) =>
    LET load == inflight[1]
        devto == AggDevTo(load)[1]
        hn == AggHN(load)
        Keeps(list, id) == Cardinality({j \in 1..Len(list) : list[j].id = id}) = 1
    IN  \A i \in 1..Len(devto), j \in 1..Len(hn) :
          (/\ devto[i].title # NoTitle
           /\ DedupKey(devto[i].title) = DedupKey(hn[j].title)
           /\ \A k \in 1..(i - 1) :
                devto[k].title = NoTitle
                \/ DedupKey(devto[k].title) # DedupKey(devto[i].title))
            => /\ Keeps(load.merged, << "devto", devto[i].id >>)
               /\ Cardinality({k \in 1..Len(load.merged) :
                     DedupKey(load.merged[k].title) = DedupKey(devto[i].title)}) = 1
               /\ (load.filter = "funding" /\ MentionsFunding(devto[i].title))
                    => Keeps(allArticles, << "devto", devto[i].id >>)

\* the funding list kept a dev.to article although the HN hit of the same
\* key has more points, and kept one whose title differs from the HN hit's
\* only in letter case
C12_LowerScoredDevToKept ==
  /\ phase = "agg"
  /\ variant = "v4"
  /\ inflight[1].stage = "returned"
  /\ inflight[1].filter = "funding"
  /\ LET devto == AggDevTo(inflight[1])[1]
         hn == AggHN(inflight[1])
         Kept(d) == \E k \in 1..Len(allArticles) : allArticles[k].id = << "devto", d.id >>
         Shared(d, h) == d.title # NoTitle /\ DedupKey(d.title) = DedupKey(h.title)
     IN  /\ \E i \in 1..Len(devto), j \in 1..Len(hn) :
              /\ Shared(devto[i], hn[j])
              /\ hn[j].points > devto[i].positive_reactions_count
              /\ Kept(devto[i])
         /\ \E i \in 1..Len(devto), j \in 1..Len(hn) :
              /\ Shared(devto[i], hn[j])
              /\ devto[i].title # hn[j].title
              /\ Kept(devto[i])

\* C13, as the spec states it: every list a load installs, the broader
\* fallback list of part_001 included, is in non-increasing order of points.
C13_InstalledListSorted ==
  (phase = "agg" /\ inflight[1].stage = "returned") =>
    \A j \in 1..(Len(allArticles) - 1) :
      allArticles[j].points >= allArticles[j + 1].points

\* C14, as the spec states it: no installed list is longer than the
\* configured maximum (60 in app.js, 80 in part_000 and part_001), on any
\* path and whatever the upstream sends.
C14_InstalledListCapped ==
  (phase = "agg" /\ inflight[1].stage = "returned") =>
    Len(allArticles) <= (IF variant = "v2" THEN MAX_RESULTS ELSE MaxMerged)

\* C15: the 3-day fetch is issued iff the 1-day fetch yielded fewer than
\* the sparse threshold (5 raw hits in app.js, 6 deduplicated titled hits in
\* part_000), it is issued at most once, and its results replace (app.js)
\* or extend without duplicates (part_000) those of the first window.
C15_WidenedIffSparse ==
  (phase = "agg" /\ variant \in {"v2", "v3"}) =>
    LET load == inflight[1]
        Ids(hits) == {hits[j].objectID : j \in 1..Len(hits)}
        Titled(hits) == SelectSeq(hits, LAMBDA h : h.title # NoTitle)
        yielded == IF variant = "v2" THEN Len(AggHits(load, 1))
                   ELSE Cardinality(Ids(Titled(AggHits(load, 1))))
        sparse == yielded < (IF variant = "v2" THEN SparseV2 ELSE SparseV3)
    IN  /\ load.stage = "day3" => (sparse /\ last.op = "widen" /\ last.requests = 1)
        /\ last.op = "widen" => load.stage = "day3"
        /\ load.stage = "returned" =>
             /\ load.widened <=> sparse
             /\ load.widened =>
                  /\ \A i, j \in 1..Len(allArticles) :
                       i # j => allArticles[i].objectID # allArticles[j].objectID
                  /\ Ids(allArticles) =
                       IF variant = "v2" THEN Ids(AggHits(load, 3))
                       ELSE Ids(Titled(AggHits(load, 1))) \cup Ids(Titled(AggHits(load, 3)))

\* an aggregation of app.js returned the hits of the 3-day window after
\* the 1-day window had answered one hit less than the threshold
C15_WidenedJustBelowThreshold ==
  /\ phase = "agg"
  /\ variant = "v2"
  /\ inflight[1].stage = "returned"
  /\ inflight[1].widened
  /\ Len(AggHits(inflight[1], 1)) = SparseV2 - 1
  /\ Len(allArticles) > SparseV2 - 1

\* C20, as the spec states it: every article of a list an aggregation
\* produces has a title: records without one are dropped at ingestion in
\* every variant.
C20_EveryArticleTitled ==
  (phase = "agg" /\ inflight[1].stage = "returned") =>
    \A j \in 1..Len(allArticles) : allArticles[j].title # NoTitle

\* C16: a load of part_001 whose filtered list is empty (for 'funding': no
\* merged title names a funding keyword) issues the broader query, one
\* request, and only then ends: with the broader list rendered under the
\* "limited results" notice, or with the explicit could-not-load state; a
\* load waiting for the broader query never issues another request.  A
\* 'funding' load that ends without the broader query shows a non-empty list
\* of funding titles.
C16_FundingFallsBack ==
  [][variant = "v4" =>
       /\ last'.op = "fallback" =>
            \E i \in 1..Len(inflight) :
              /\ inflight[i].stage = "main"
              /\ inflight' = [inflight EXCEPT ![i].stage = "fallback",
                                              ![i].anyOk = inflight'[i].anyOk]
              /\ last'.requests = 1
              /\ allArticles' = << >>
       /\ (last'.requests > 0 /\ last'.op # "fallback") =>
            /\ last'.op = "load"
            /\ inflight' = Append(inflight, NewLoad("v4", last'.filter))
       /\ (last'.op = "done" /\ last'.filter = "funding") =>
            \E i \in 1..Len(inflight) :
              /\ inflight[i].filter = "funding"
              /\ inflight' = Remove(inflight, i)
              /\ IF inflight[i].stage = "main"
                   THEN /\ Len(allArticles') > 0
                        /\ \A j \in 1..Len(allArticles') :
                             IsFundingTitle(allArticles'[j].title)
                        /\ grid'.kind = "cards"
                   ELSE \/ /\ last'.outcome = "fallback"
                           /\ Len(allArticles') > 0
                           /\ grid'.kind = "cards"
                           /\ errorBanner' = "limited"
                        \/ /\ last'.outcome = "failed"
                           /\ allArticles' = << >>
                           /\ grid'.kind = "failed"]_vars

\* a load of 'funding' ended showing the broader list under the notice
C16_BroaderListShown ==
  /\ variant = "v4"
  /\ last.op = "done"
  /\ last.filter = "funding"
  /\ last.outcome = "fallback"
  /\ errorBanner = "limited"
  /\ grid.kind = "cards"
  /\ Len(allArticles) > 0
  /\ Len(grid.cards) > 0

\* C17, as the spec states it: in every reachable state the pager's cursor
\* lies within the current list, 0 <= displayedCount <= allArticles.length,
\* and after a render the load-more control is shown iff the cursor is short
\* of the end.
C17_PagerCursorInRange ==
  /\ 0 <= displayedCount
  /\ displayedCount <= Len(allArticles)
  /\ (last.op \in {"hit", "done", "more"} /\ grid.kind = "cards")
       => (loadMoreWrap <=> displayedCount < Len(allArticles))

\* C18, as the spec states it: every tick of the timer starts a forced
\* refresh of the selected filter: the forced call of load goes to the
\* network, whatever the cache holds, and no tick is lost.
C18_EveryTickRefreshes ==
  last.force => (last.op = "load" /\ last.filter = currentFilter /\ last.requests > 0)

\* C19: in part_001 the promises of fetchDevTo's tags and of fetchHN never
\* reject, whether the request meets a network error, a non-OK status or a
\* body that does not parse: each failed request stands for an empty list,
\* and load's catch branch is not reached from the aggregation.
C19_FetchersFailSoft ==
  (phase = "fan" /\ variant = "v4") =>
    /\ ~AnyRejected(inflight[1].status)
    /\ \A outcome \in Outcomes \ {"ok"} :
         DevToTagPromise(outcome) = "empty" /\ fetchHNPromise(outcome) = "empty"
    /\ inflight[1].stage # "caught"
    /\ last.op # "catch"
    /\ inflight[1].stage = "returned" =>
         /\ AllSettled(inflight[1].status)
         /\ (\A k \in DOMAIN inflight[1].status : inflight[1].status[k] = "empty")
              => allArticles = << >>

\* load merged the lists although every request of the aggregation had
\* failed
C19_AllRequestsFailedSoftly ==
  /\ phase = "fan"
  /\ variant = "v4"
  /\ inflight[1].stage = "returned"
  /\ \A k \in DOMAIN inflight[1].status : inflight[1].status[k] = "empty"
  /\ last.op = "join"
  /\ allArticles = << >>

C22_TagsAreFirstThreeMatches ==
  (phase = "tag" /\ grid.kind = "cards") =>
    LET title == JoinPhrases(allArticles[1].title)
        table == TAG_MAP(variant)
        tags == grid.cards[1].tags
        Occurs(w) == \E i \in 0..(Len(title) - Len(w)) :
                       \A j \in 1..Len(w) : LowerChar(title[i + j]) = w[j]
        match == {r \in 1..Len(table) :
                    \E k \in 1..Len(table[r].words) : Occurs(table[r].words[k])}
    IN  /\ Len(tags) = Min(3, Cardinality(match))
        /\ \A k \in 1..Len(tags) :
             \E r \in match : /\ tags[k] = table[r].label
                              /\ Cardinality({q \in match : q < r}) = k - 1
        /\ \A i, j \in 1..Len(tags) : i # j => tags[i] # tags[j]
        /\ grid.cards[1].title = allArticles[1].title

\* a card whose title matches four rows, in another order than the
\* table's and with capital letters, got the first three labels
C22_FourthLabelCut ==
  /\ phase = "tag"
  /\ grid.kind = "cards"
  /\ grid.cards[1].title = << "Robotics", "arXiv paper", "Llama 3" >>
  /\ grid.cards[1].tags = << "LLM", "Research", "Open Source" >>

\* C23, as the spec states it: a load that has ended, on any path, has left
\* the loading state: in place of the skeletons the grid holds article
\* cards, the empty-state message or the error state, and in part_000
\* isLoading is false again.
C23_LoadEndsOnContent ==
  (phase = "run" /\ last.op \in {"hit", "done"}) =>
    /\ grid.kind \in {"cards", "empty", "failed"}
    /\ grid.kind = "cards" => Len(grid.cards) > 0
    /\ variant = "v3" => ~isLoading

\* C24: in part_000 at most one aggregation is in flight, and isLoading
\* tells whether one is; a call of load that arrives meanwhile (a click or
\* a tick) is dropped: it issues no request and leaves currentFilter,
\* displayedCount, allArticles, the grid and the cache as they were.
C24_OneAggregationAtATime ==
  [][variant = "v3" =>
       /\ Len(inflight') <= 1
       /\ isLoading' <=> Len(inflight') = 1
       /\ (isLoading /\ (ticks' # ticks \/ last'.op \in {"load", "hit", "blocked"}))
            => last'.op = "blocked"
       /\ last'.op = "blocked" =>
            /\ isLoading
            /\ last'.requests = 0
            /\ UNCHANGED << currentFilter, displayedCount, allArticles, grid, blob,
                            inflight, isLoading, loadMoreWrap, errorBanner, written >>]_vars

\* a click on another filter was dropped while the aggregation of the
\* current one was in flight
C24_ClickDroppedWhileLoading ==
  /\ variant = "v3"
  /\ last.op = "blocked"
  /\ ~last.force
  /\ last.filter # currentFilter
  /\ Len(inflight) = 1
  /\ inflight[1].filter = currentFilter

\* C25, as the spec states it: in part_000, whenever no load is in flight,
\* the button marked active is the one of currentFilter and the list in
\* memory is the one of that filter, whatever clicks, ticks and completions
\* came before.
C25_ActiveButtonIsCurrentFilter ==
  (variant = "v3" /\ phase = "run" /\ Len(inflight) = 0) =>
    /\ activeBtn = currentFilter
    /\ listOwner = currentFilter

\* C26, as the spec states it: whenever the load-more control is visible
\* the grid holds cards of the current list and displayedCount is short of
\* its length; the control is never visible over skeletons, the empty
\* state or the error state, however loads overlap.
C26_LoadMoreOnlyOverCards ==
  loadMoreWrap =>
    /\ grid.kind = "cards"
    /\ displayedCount < Len(allArticles)
    /\ \A j \in 1..Len(grid.cards) :
         \E k \in 1..Len(allArticles) : allArticles[k] = grid.cards[j]

\* C27: saveCache(filter, articles) changes only that filter's entry.  In
\* every reachable state the store holds, under each filter, exactly the
\* entry last stored under that filter, whatever was saved under other
\* filters since and in whatever order the loads ended; and a further
\* saveCache under any filter f, with any list and with or without room in
\* storage, leaves every other filter g with the same entry (articles and
\* timestamp) and loadCache(g) with the same value, now and later.
C27_SaveTouchesOneEntry ==
  /\ blob.kind = "object" => blob.entries = written
  /\ blob.kind # "object" => written = NoEntries
  /\ \A f \in Filters(variant), quota \in BOOLEAN :
     \A articles \in {<< >>, allArticles, OldList(variant, f)} :
       LET after == SaveCache(blob, f, articles, now, quota)
       IN  \A g \in Filters(variant) \ {f} :
             /\ HasEntry(after, g) <=> HasEntry(blob, g)
             /\ HasEntry(blob, g) => after.entries[g] = blob.entries[g]
             /\ \A t \in {now, now + CACHE_TTL, now + CACHE_TTL + 1} :
                  LoadCache(after, g, t) = LoadCache(blob, g, t)

\* C27 witness: a load has just stored its list while the store holds an
\* entry another load of this session stored under the other filter
C27_TwoFiltersStored ==
  /\ last.op = "done" /\ last.saved
  /\ HasEntry(blob, last.filter)
  /\ blob.entries[last.filter].ts = now
  /\ \E g \in Filters(variant) \ {last.filter} :
       /\ HasEntry(blob, g)
       /\ blob.entries[g].ts >= BootTime
       /\ blob.entries[g].articles # blob.entries[last.filter].articles
       /\ LoadCache(blob, g, now) = Found(blob.entries[g].articles)

\* the broader list a part_001 load falls back to when the request succeeds
BroaderList == fetchDevTo(<< "artificial-intelligence" >>, << TRUE >>)

\* C28: in part_001 a load that ends on the broader fallback list, or on
\* the empty result, leaves the cache as it was.  The store never holds the
\* broader list under any filter, and holds only what
\* recorded saves put there; right after a load ended on the fallback the
\* cache does not answer its filter with the list now shown; and a load
\* served from the cache never shows the broader list.
C28_FallbackNeverCached ==
  variant = "v4" =>
    /\ blob.kind = "object" =>
         /\ blob.entries = written
         /\ \A f \in DOMAIN blob.entries :
              /\ blob.entries[f].articles # BroaderList
              /\ (f = "funding" /\ blob.entries[f].ts >= BootTime) =>
                   \A k \in 1..Len(blob.entries[f].articles) :
                     IsFundingTitle(blob.entries[f].articles[k].title)
    /\ (last.op = "done" /\ last.outcome = "fallback") =>
         /\ ~last.saved
         /\ allArticles = BroaderList
         /\ \A t \in {now, now + CACHE_TTL} :
              LoadCache(blob, last.filter, t) # Found(allArticles)
    /\ (last.op = "done" /\ last.outcome = "failed" /\ ~last.allFailed) => ~last.saved
    /\ last.op = "hit" =>
         /\ allArticles # BroaderList
         /\ allArticles = blob.entries[last.filter].articles

\* C28 witness: a 'funding' load has ended on the broader list while the
\* store still holds, untouched, the expired entry of an earlier session
\* under 'funding'
C28_FallbackShownEntryUntouched ==
  /\ variant = "v4"
  /\ last.op = "done" /\ last.outcome = "fallback" /\ last.filter = "funding"
  /\ grid.kind = "cards" /\ grid.cards = Take(BroaderList, PAGE_SIZE)
  /\ errorBanner = "limited"
  /\ HasEntry(blob, "funding")
  /\ blob.entries["funding"] \in {OldEntry("v4", "funding", ts) : ts \in {0, 1}}

\* C29: in part_000 and part_001 an empty list is never written to the
\* cache and never served from it.  Every entry a load of this session
\* stored holds at least one article, a load that has just saved shows a
\* non-empty list, a load served from the cache (at its start or after a
\* failure) shows a non-empty list, and a non-forced load that finds a fresh entry whose list is empty
\* goes to the network.
C29_EmptyListNeitherStoredNorServed ==
  variant \in {"v3", "v4"} =>
    /\ \A f \in DOMAIN written :
         written[f].ts >= BootTime => Len(written[f].articles) > 0
    /\ (last.op = "done" /\ last.saved) => Len(allArticles) > 0
    /\ last.op = "hit" =>
         /\ Len(allArticles) > 0
         /\ grid.kind = "cards"
         /\ Len(grid.cards) > 0
    /\ (last.op = "done" /\ last.outcome = "cached") => Len(allArticles) > 0
    /\ (last.op \in {"load", "hit"} /\ ~last.force
          /\ LoadCache(blob, last.filter, now) = Found(<< >>)) =>
         /\ last.op = "load"
         /\ last.requests = FirstRequests(variant, last.filter)
         /\ Len(inflight) > 0
         /\ inflight[Len(inflight)] = NewLoad(variant, last.filter)

\* C29 witness: the page load found under 'all' a fresh entry with an empty
\* list and has issued its requests
C29_FreshEmptyEntryIsAMiss ==
  /\ variant \in {"v3", "v4"}
  /\ last.op = "load" /\ ~last.force /\ last.filter = "all"
  /\ HasEntry(blob, "all")
  /\ now - blob.entries["all"].ts <= CACHE_TTL
  /\ blob.entries["all"].articles = << >>
  /\ last.requests > 0
  /\ Len(inflight) = 1
  /\ grid = Skeletons

\* C30: in the static-feed script, right after every applyFilter and every
\* completed loadArticles, filtered is allArticles restricted, in order, to
\* the articles the current filter accepts ('all': every article;
\* 'funding': category funding or a funding word in the lower-cased title;
\* otherwise: that category), and displayedCount = min(PAGE_SIZE,
\* filtered.length); when the feed arrives, the list shown is the one of the
\* filter last clicked, also when the click came while the feed was loading.
C30_FilteredFollowsCurrentFilter ==
  (variant = "v5" /\ last.op \in {"apply", "done"}) =>
    LET keep == {i \in 1..Len(allArticles) :
                   \/ currentFilter = "all"
                   \/ allArticles[i].category = currentFilter
                   \/ /\ currentFilter = "funding"
                      /\ HasFundingWord(allArticles[i].title)}
    IN  /\ filtered = Pick(allArticles, keep)
        /\ displayedCount = Min(PAGE_SIZE_v5, Len(filtered))
        /\ currentFilter = activeBtn
        /\ (last.op = "apply" \/ last.outcome = "fresh") =>
             /\ currentFilter = last.filter
             /\ grid = IF Len(filtered) = 0 THEN Grid("empty", << >>)
                       ELSE Grid("cards", Take(filtered, PAGE_SIZE_v5))
             /\ loadMoreWrap <=> Len(filtered) > PAGE_SIZE_v5

\* C30 witness: 'funding' was clicked while the feed was loading; the feed
\* has arrived with more than PAGE_SIZE articles and the grid shows the
\* funding articles, one of them recognised by its title alone
C30_ClickWhileLoadingHonoured ==
  /\ variant = "v5"
  /\ last.op = "done" /\ last.outcome = "fresh"
  /\ currentFilter = "funding" /\ activeBtn = "funding"
  /\ Len(allArticles) > PAGE_SIZE_v5
  /\ Len(filtered) > 0 /\ Len(filtered) < Len(allArticles)
  /\ grid = Grid("cards", filtered)
  /\ \E k \in 1..Len(filtered) : filtered[k].category # "funding"

=============================================================================
